---- MODULE Spec2Model ----
(***************************************************************************)
(* Model of CableCalcApp (src/cable_calc_gui.py): the cable sizing engine  *)
(* behind the form - reference lookups, the live recomputation             *)
(* (_update_intermediate_results), the chain accumulation                  *)
(* (_sum_drop_chain_ending_at) and the optimizer                           *)
(* (select_optimal_parameters).                                            *)
(*                                                                         *)
(* Numbers.  Python floats are modelled as fixed-point integers in         *)
(* thousandths (1.5 mm2 = 1500, 19.5 A = 19500, 3 % = 3000); products and   *)
(* quotients are rescaled with MulK / DivK and rounded towards minus       *)
(* infinity.  sqrt(3) is 1732.  An optional value (float | None) is the    *)
(* empty sequence (None) or a one element sequence <<v>>.                  *)
(*                                                                         *)
(* Texts.  The text of a numeric form field or table cell is a record      *)
(* [k, sg, ip, fr]: k = "empty" (""), "bad" (text float() rejects) or      *)
(* "num", a decimal literal with sign sg, integer part ip and the sequence *)
(* fr of digits written after the separator ("10" and "10.00" are          *)
(* different texts of the same number).  Labels are strings.               *)
(***************************************************************************)
EXTENDS Integers, Sequences, FiniteSets, TLC

VARIABLES
    form,                       \* _form_values (the input form)
    medium_selected_key,        \* _medium_selected_key
    temperature_editing,        \* _temperature_editing
    last_temperature_warning,   \* _last_temperature_warning
    voltage_phase_warning_shown,\* _voltage_phase_warning_shown
    iv,                         \* _intermediate_vars (derived values shown)
    last_result,                \* _last_result
    table_data,                 \* _table_data (the segment table)
    tree,                       \* the rows of the Treeview, each the values it shows
    catalogue,                  \* which tables.json _load_external_resources read
    walk,                       \* locals of a running _sum_drop_chain_ending_at
    opt,                        \* what the last select_optimal_parameters reported
    notes,                      \* messagebox calls made by the last handler
    op,                         \* the handler that ran last
    warned,                     \* history: temperature warnings shown so far
    voltage_warnings,           \* history: number of voltage/phase warnings shown
    raised,                     \* the exception that ended the last handler ("": none)
    probe                       \* a single call of a reference lookup and its outcome

vars == <<form, medium_selected_key, temperature_editing, last_temperature_warning,
          voltage_phase_warning_shown, iv, last_result, table_data, tree, catalogue,
          walk, opt, notes, op, warned, voltage_warnings, raised, probe>>

(***************************************************************************)
(* Bounds of the model.                                                    *)
(***************************************************************************)
MaxRows == 3

(***************************************************************************)
(* Optional values and fixed-point arithmetic.                             *)
(***************************************************************************)
\* body(x) with x evaluated once: a local variable of the code
With(x, body(_)) == CHOOSE r \in {body(y) : y \in {x}} : TRUE

None == <<>>

Some(x) == <<x>>

IsNone(o) == o = <<>>

Val(o) == o[1]

Max2(a, b) == IF a >= b THEN a ELSE b

Min2(a, b) == IF a <= b THEN a ELSE b

Abs(a) == IF a >= 0 THEN a ELSE -a

\* a * b of two fixed-point numbers
MulK(a, b) == (a \div 1000) * b + ((a % 1000) * b) \div 1000

\* a / b of two fixed-point numbers, b # 0
DivPos(a, b) == (a \div b) * 1000 + ((a % b) * 1000) \div b

DivK(a, b) == IF b > 0 THEN DivPos(a, b) ELSE DivPos(-a, -b)

\* math.sqrt of a fixed-point number in [0, 1]
RECURSIVE SqrtBetween(_, _, _)
SqrtBetween(x, lo, hi) ==
    IF hi - lo <= 1 THEN lo
    ELSE LET mid == (lo + hi) \div 2
         IN IF mid * mid <= x THEN SqrtBetween(x, mid, hi) ELSE SqrtBetween(x, lo, mid)

SqrtK(a) == SqrtBetween(a * 1000, 0, 1001)

\* math.isclose(a, b, rel_tol=1e-6, abs_tol=1e-3)
IsClose(a, b) == Abs(a - b) <= Max2(Max2(Abs(a), Abs(b)) \div 1000000, 1)

\* math.isclose(a, b) with the default rel_tol=1e-9, abs_tol=0
IsCloseDefault(a, b) == a = b

RECURSIVE SortedSeq(_)
SortedSeq(S) ==
    IF S = {} THEN <<>>
    ELSE LET m == CHOOSE x \in S : \A y \in S : x <= y
         IN <<m>> \o SortedSeq(S \ {m})

Range(s) == {s[i] : i \in 1..Len(s)}

(***************************************************************************)
(* Texts of numeric fields.                                                *)
(***************************************************************************)
EmptyText == [k |-> "empty", sg |-> 1, ip |-> 0, fr |-> <<>>]

BadText == [k |-> "bad", sg |-> 1, ip |-> 0, fr |-> <<>>]

\* the dash _fmt returns for None
Dash == [k |-> "dash", sg |-> 1, ip |-> 0, fr |-> <<>>]

Num(ip, fr) == [k |-> "num", sg |-> 1, ip |-> ip, fr |-> fr]

Neg(ip, fr) == [k |-> "num", sg |-> -1, ip |-> ip, fr |-> fr]

Digit(fr, i) == IF i <= Len(fr) THEN fr[i] ELSE 0

\* float(text): the value of a decimal literal, in thousandths
FloatOf(t) == t.sg * (t.ip * 1000 + Digit(t.fr, 1) * 100 + Digit(t.fr, 2) * 10 + Digit(t.fr, 3))

try_parse_float(t) == IF t.k = "num" THEN Some(FloatOf(t)) ELSE None

\* int(text): only a literal without a fractional part is accepted (else ValueError)
IntOf(t) == IF t.k = "num" /\ t.fr = <<>> THEN Some(t.sg * t.ip) ELSE None

(***************************************************************************)
(* Reference tables.  The program loads them from data/tables.json at      *)
(* start-up (_load_external_resources) and never writes them afterwards;   *)
(* the values below are a small catalogue of that shape.                   *)
(***************************************************************************)
INSULATION_META ==
    ("PVC (70C)" :> [key |-> "PVC", theta |-> 70]) @@
    ("XLPE/EPR (90C)" :> [key |-> "XLPE", theta |-> 90])

TEMPERATURE_MEDIA == {"air", "soil"}

\* the standard catalogues of the file loaded: ascending, as in the standard
\* series; the minimal file has one section, two ratings and a blank entry;
\* a file without STANDARD_SECTIONS leaves the class default, the empty list
STANDARD_SECTIONS ==
    IF catalogue = "minimal" THEN <<2500>>
    ELSE IF catalogue = "no_sections" THEN <<>>
    ELSE <<1500, 2500, 4000>>

STANDARD_BREAKER_RATINGS ==
    IF catalogue = "minimal"
    THEN <<Num(6, <<>>), EmptyText, Num(40, <<>>)>>
    ELSE <<Num(6, <<>>), Num(10, <<>>), Num(16, <<>>), Num(25, <<>>)>>

METHOD_PREFERENCE == <<"E", "C">>

\* a tables.json may give a key the limit 0.0
DROP_LIMIT_KEYS ==
    IF catalogue = "zero_limit" THEN ("A" :> 0) @@ ("B" :> 5000)
    ELSE ("A" :> 3000) @@ ("B" :> 5000)

RESISTIVITY_20 == ("Cu" :> 17500) @@ ("Al" :> 28000)      \* in millionths

TEMP_COEFF == ("Cu" :> 3930) @@ ("Al" :> 4030)            \* in millionths

REACTANCE_DEFAULT == 80

AMPACITY_BASE ==
    ("C" :> ((1500 :> 19500) @@ (2500 :> 27000) @@ (4000 :> 36000))) @@
    ("E" :> ((1500 :> 22000) @@ (2500 :> 30000) @@ (4000 :> 40000)))

AMPACITY_INSULATION_FACTORS ==
    ("PVC" :> ("Cu" :> (("C" :> 1000) @@ ("E" :> 1000)))) @@
    ("XLPE" :> ("Cu" :> (("C" :> 1250) @@ ("E" :> 1250))))

AMPACITY_LOADED_FACTORS ==
    ("C" :> ((2 :> 1000) @@ (3 :> 900))) @@
    ("E" :> ((2 :> 1000) @@ (3 :> 900)))

\* a file whose GROUPING_FACTORS does not convert leaves the class default,
\* the empty table (lines 486-490); "single_group" is a file with the one key 1
GROUPING_FACTORS ==
    IF catalogue = "no_grouping" THEN <<>>
    ELSE IF catalogue = "single_group" THEN (1 :> 900)
    ELSE IF catalogue = "zero_group" THEN (1 :> 1000) @@ (2 :> 800) @@ (3 :> 0)
    ELSE (1 :> 1000) @@ (2 :> 800) @@ (3 :> 700)

KT_V_TABLE ==
    ("PVC" :> ((20 :> 1120) @@ (30 :> 1000) @@ (40 :> 870))) @@
    ("XLPE" :> ((20 :> 1080) @@ (30 :> 1000) @@ (40 :> 910)))

KT_Z_TABLE ==
    ("PVC" :> ((10 :> 1100) @@ (20 :> 1000) @@ (30 :> 890))) @@
    ("XLPE" :> ((10 :> 1070) @@ (20 :> 1000) @@ (30 :> 930)))

(***************************************************************************)
(* Reference lookups.                                                      *)
(***************************************************************************)
\* the for/zip loop of _lookup_ampacity over the pairs i, i+1 of the sorted areas
RECURSIVE AmpacityScan(_, _, _, _)
AmpacityScan(base_table, sections, area, i) ==
    IF i >= Len(sections) THEN None
    ELSE LET lower == sections[i]
             upper == sections[i + 1]
         IN IF IsClose(area, lower) THEN Some(base_table[lower])
            ELSE IF lower <= area /\ area <= upper
                 THEN LET lower_val == base_table[lower]
                          upper_val == base_table[upper]
                      IN IF IsCloseDefault(upper, lower) THEN Some(lower_val)
                         ELSE Some(lower_val +
                                   MulK(DivK(area - lower, upper - lower), upper_val - lower_val))
                 ELSE AmpacityScan(base_table, sections, area, i + 1)

\* the lookup without the clamp: no value outside the standard areas
lookup_ampacity_Unclamped(insulation_key, conductor, laying, area, loaded_cores) ==
    IF laying \notin DOMAIN AMPACITY_BASE THEN None
    ELSE IF insulation_key \notin DOMAIN AMPACITY_INSULATION_FACTORS THEN None
    ELSE IF conductor \notin DOMAIN AMPACITY_INSULATION_FACTORS[insulation_key] THEN None
    ELSE LET base_table == AMPACITY_BASE[laying]
             multiplier == AMPACITY_INSULATION_FACTORS[insulation_key][conductor][laying]
             load_multiplier == AMPACITY_LOADED_FACTORS[laying][loaded_cores]
             standard_sections == SortedSeq(DOMAIN base_table)
             base_value ==
                 IF area \in DOMAIN base_table THEN Some(base_table[area])
                 ELSE AmpacityScan(base_table, standard_sections, area, 1)
         IN IF IsNone(base_value) THEN None
            ELSE Some(MulK(MulK(Val(base_value), multiplier), load_multiplier))

lookup_ampacity(insulation_key, conductor, laying, area, loaded_cores) ==
    IF laying \notin DOMAIN AMPACITY_BASE THEN None
    ELSE IF DOMAIN AMPACITY_BASE[laying] = {} THEN None
    ELSE IF insulation_key \notin DOMAIN AMPACITY_INSULATION_FACTORS THEN None
    ELSE IF conductor \notin DOMAIN AMPACITY_INSULATION_FACTORS[insulation_key] THEN None
    ELSE IF laying \notin DOMAIN AMPACITY_LOADED_FACTORS THEN None
    ELSE IF laying \notin DOMAIN AMPACITY_INSULATION_FACTORS[insulation_key][conductor] THEN None
    ELSE IF loaded_cores \notin DOMAIN AMPACITY_LOADED_FACTORS[laying] THEN None
    ELSE LET base_table == AMPACITY_BASE[laying]
             multiplier == AMPACITY_INSULATION_FACTORS[insulation_key][conductor][laying]
             load_multiplier == AMPACITY_LOADED_FACTORS[laying][loaded_cores]
             standard_sections == SortedSeq(DOMAIN base_table)
             n == Len(standard_sections)
             base_value ==
                 IF area <= standard_sections[1] THEN Some(base_table[standard_sections[1]])
                 ELSE IF area >= standard_sections[n] THEN Some(base_table[standard_sections[n]])
                 ELSE AmpacityScan(base_table, standard_sections, area, 1)
         IN IF IsNone(base_value) THEN None
            ELSE Some(MulK(MulK(Val(base_value), multiplier), load_multiplier))

\* max(self.GROUPING_FACTORS) of an empty table raises ValueError (line 994)
lookup_group_factor_raises(circuits) == circuits > 1 /\ DOMAIN GROUPING_FACTORS = {}

\* the lookup without the flat continuation beyond the largest key
lookup_group_factor_NoFlat(circuits) ==
    IF circuits <= 1 THEN 1000
    ELSE IF circuits \in DOMAIN GROUPING_FACTORS THEN GROUPING_FACTORS[circuits]
    ELSE 1000

lookup_group_factor(circuits) ==
    IF circuits <= 1 THEN 1000
    ELSE LET max_defined == CHOOSE x \in DOMAIN GROUPING_FACTORS :
                                \A y \in DOMAIN GROUPING_FACTORS : y <= x
         IN IF circuits >= max_defined THEN GROUPING_FACTORS[max_defined]
            ELSE IF circuits \in DOMAIN GROUPING_FACTORS THEN GROUPING_FACTORS[circuits]
            ELSE GROUPING_FACTORS[max_defined]

\* the for/zip loop of _lookup_temperature_factor; breakpoints are whole degrees
RECURSIVE TemperatureScan(_, _, _, _)
TemperatureScan(table, points, temperature, i) ==
    IF i >= Len(points) THEN None
    ELSE LET lower == points[i]
             upper == points[i + 1]
         IN IF lower * 1000 <= temperature /\ temperature <= upper * 1000
            THEN LET lower_val == table[lower]
                     upper_val == table[upper]
                 IN IF IsCloseDefault(upper, lower) THEN Some(lower_val)
                    ELSE Some(lower_val +
                              MulK(DivK(temperature - lower * 1000, (upper - lower) * 1000),
                                   upper_val - lower_val))
            ELSE TemperatureScan(table, points, temperature, i + 1)

\* the lookup if it held the factor of the nearest breakpoint outside the range
lookup_temperature_factor_Clamped(insulation_key, medium, temperature) ==
    LET tables == IF medium = "soil" THEN KT_Z_TABLE ELSE KT_V_TABLE
    IN IF insulation_key \notin DOMAIN tables THEN None
       ELSE LET table == tables[insulation_key]
                points == SortedSeq(DOMAIN table)
            IN IF temperature <= points[1] * 1000 THEN Some(table[points[1]])
               ELSE IF temperature >= points[Len(points)] * 1000
               THEN Some(table[points[Len(points)]])
               ELSE IF temperature % 1000 = 0 /\ (temperature \div 1000) \in DOMAIN table
                    THEN Some(table[temperature \div 1000])
                    ELSE TemperatureScan(table, points, temperature, 1)

lookup_temperature_factor(insulation_key, medium, temperature) ==
    LET tables == IF medium = "soil" THEN KT_Z_TABLE ELSE KT_V_TABLE
    IN IF insulation_key \notin DOMAIN tables THEN None
       ELSE IF DOMAIN tables[insulation_key] = {} THEN None
       ELSE LET table == tables[insulation_key]
                points == SortedSeq(DOMAIN table)
            IN IF temperature < points[1] * 1000 \/ temperature > points[Len(points)] * 1000
               THEN None
               ELSE IF temperature % 1000 = 0 /\ (temperature \div 1000) \in DOMAIN table
                    THEN Some(table[temperature \div 1000])
                    ELSE TemperatureScan(table, points, temperature, 1)

\* (r_per_km, x_per_km); REACTANCE_DATA holds only its "default" entry
calculate_line_impedance(conductor, insulation_temp, area, laying) ==
    IF conductor \notin DOMAIN RESISTIVITY_20 \/ conductor \notin DOMAIN TEMP_COEFF
    THEN <<0, REACTANCE_DEFAULT>>
    ELSE LET rho_20 == RESISTIVITY_20[conductor]
             alpha == TEMP_COEFF[conductor]
             rho_theta == MulK(rho_20, 1000 + (alpha * (insulation_temp - 20)) \div 1000)
             r_per_km == IF area <= 0 THEN 0 ELSE (rho_theta * 1000) \div area
         IN <<r_per_km, REACTANCE_DEFAULT>>

PhaseFactor(loaded_cores) == IF loaded_cores = 2 THEN 2000 ELSE 1732

\* phase * icalc * (r_m * cos + x_m * sin) * L * 100 / U, with U in whole volts;
\* r and x stay per kilometre, so the factor 100 / 1000 becomes the division by 10
DropFormula(phase, icalc_total, r_km, x_km, divider, cos_phi, L_m, U) ==
    LET r_m == r_km \div divider
        x_m == x_km \div divider
        sin_phi == SqrtK(Max2(0, 1000 - MulK(Min2(1000, cos_phi), Min2(1000, cos_phi))))
        impedance_drop == MulK(r_m, cos_phi) + MulK(x_m, sin_phi)
    IN MulK(MulK(MulK(phase, icalc_total), impedance_drop), L_m) \div (10 * U)

drop_pct(U, cos_phi, L_m, conductor, insulation_theta, area_mm2, method, loaded_cores, n_parallel, icalc_total) ==
    LET z == calculate_line_impedance(conductor, insulation_theta, area_mm2, method)
    IN IF U = 0 THEN 0
       ELSE DropFormula(PhaseFactor(loaded_cores), icalc_total, z[1], z[2],
                        Max2(n_parallel, 1), cos_phi, L_m, U)

(***************************************************************************)
(* _fmt: the text of a number with `digits` decimals (0 to 3), rounded     *)
(* half to even.  The decimal separator of the language is not modelled:   *)
(* every reader replaces "," by "." before it parses or compares.          *)
(***************************************************************************)
RoundDiv(a, d) ==
    LET q == a \div d
        r == a % d
    IN IF 2 * r > d \/ (2 * r = d /\ q % 2 = 1) THEN q + 1 ELSE q

fmt(value, digits) ==
    LET a == Abs(value)
        sg == IF value < 0 THEN -1 ELSE 1
    IN IF digits = 3
       THEN [k |-> "num", sg |-> sg, ip |-> a \div 1000,
             fr |-> <<(a \div 100) % 10, (a \div 10) % 10, a % 10>>]
       ELSE IF digits = 2
       THEN LET h == RoundDiv(a, 10)
            IN [k |-> "num", sg |-> sg, ip |-> h \div 100, fr |-> <<(h \div 10) % 10, h % 10>>]
       ELSE IF digits = 1
       THEN LET t == RoundDiv(a, 100)
            IN [k |-> "num", sg |-> sg, ip |-> t \div 10, fr |-> <<t % 10>>]
       ELSE [k |-> "num", sg |-> sg, ip |-> RoundDiv(a, 1000), fr |-> <<>>]

\* round(temperature, 1)
Round1(t) == RoundDiv(t, 100) * 100

(***************************************************************************)
(* The segment table and the chain accumulation.  A row keeps the columns  *)
(* the engine reads: circuit ("Strujni krug"), OD, DO, L, Presek and dU    *)
(* ("dU %", the stored drop).                                               *)
(***************************************************************************)
\* float(str(found.get("dU %", "0")).replace(",", ".")), 0 added when it raises
StoredDrop(row) == IF row.dU.k = "num" THEN FloatOf(row.dU) ELSE 0

\* the exact duplicate of the in-progress input (line 1801)
SelfMatch(row, form_od, f) ==
    form_od = row.OD /\ f.do = row.DO /\ f.L = row.L /\ f.area = row.Presek

\* the rows the inner for loop does not skip
ChainMatches(table, circuit, form_od, current, f) ==
    {i \in 1..Len(table) :
        /\ table[i].circuit = circuit
        /\ table[i].DO = current
        /\ ~SelfMatch(table[i], form_od, f)}

\* found: the row at which the inner for loop breaks (0: no row)
ChainFind(table, circuit, form_od, current, f) ==
    LET m == ChainMatches(table, circuit, form_od, current, f)
    IN IF m = {} THEN 0 ELSE CHOOSE i \in m : \A j \in m : i <= j

\* total += float(...)
ChainAddLastOnly(total, row) == StoredDrop(row)

ChainAdd(total, row) == total + StoredDrop(row)

WalkIdle == [pc |-> "idle", circuit |-> "", form_od |-> "", current |-> "",
             visited |-> {}, total |-> 0, used |-> <<>>]

\* lines 1777-1788: the early return and the initialisation of the locals
\* (used is a history of the rows found, kept for the properties)
ChainBegin(circuit, form_od) ==
    IF circuit = "" \/ form_od = ""
    THEN [WalkIdle EXCEPT !.pc = "done", !.circuit = circuit, !.form_od = form_od]
    ELSE [WalkIdle EXCEPT !.pc = "loop", !.circuit = circuit, !.form_od = form_od,
                          !.current = form_od]

\* the while loop without its cycle guard (current not in visited)
ChainIterate_NoCycleGuard(w, table, f) ==
    IF w.current = ""
    THEN [w EXCEPT !.pc = "done"]
    ELSE LET found == ChainFind(table, w.circuit, w.form_od, w.current, f)
         IN IF found = 0
            THEN [w EXCEPT !.pc = "done", !.visited = @ \cup {w.current}]
            ELSE [w EXCEPT !.visited = @ \cup {w.current},
                           !.total = ChainAdd(@, table[found]),
                           !.used = Append(@, found),
                           !.current = table[found].OD]

\* lines 1789-1812: the loop test and one iteration of the while loop
ChainIterate(w, table, f) ==
    IF w.current = "" \/ w.current \in w.visited
    THEN [w EXCEPT !.pc = "done"]
    ELSE LET found == ChainFind(table, w.circuit, w.form_od, w.current, f)
         IN IF found = 0
            THEN [w EXCEPT !.pc = "done", !.visited = @ \cup {w.current}]
            ELSE [w EXCEPT !.visited = @ \cup {w.current},
                           !.total = ChainAdd(@, table[found]),
                           !.used = Append(@, found),
                           !.current = table[found].OD]

RECURSIVE ChainRun(_, _, _)
ChainRun(w, table, f) == IF w.pc = "done" THEN w ELSE ChainRun(ChainIterate(w, table, f), table, f)

sum_drop_chain_ending_at(circuit, form_od, table, f) ==
    ChainRun(ChainBegin(circuit, form_od), table, f).total

(***************************************************************************)
(* The floats of the two sums of stored drops.  The sums add Python floats *)
(* (binary64: 53 significant bits, round to nearest, ties to even), and    *)
(* the order of the additions shows in the last bit.  A non-negative float *)
(* is written as its multiple of 2^-64, a number of 90 bits kept as five   *)
(* limbs of 18 bits, the lowest first: zero, every float from 2^-11 up and *)
(* every sum of two of them below 2^19 is such a multiple.                 *)
(***************************************************************************)
LimbBase == 2 ^ 18

FloatZero == <<0, 0, 0, 0, 0>>

\* the long division of a number by d from limb i down: the limbs of the
\* quotient and whether a remainder is left
RECURSIVE DivideFrom(_, _, _, _, _)
DivideFrom(limbs, d, i, rem, quotient) ==
    IF i = 0
    THEN [limbs |-> quotient, inexact |-> rem # 0]
    ELSE DivideFrom(limbs, d, i - 1, (rem * LimbBase + limbs[i]) % d,
                    <<(rem * LimbBase + limbs[i]) \div d>> \o quotient)

\* the exact sum of two numbers
RECURSIVE AddFrom(_, _, _, _, _)
AddFrom(a, b, i, carry, sum) ==
    IF i > 5
    THEN sum
    ELSE AddFrom(a, b, i + 1, (a[i] + b[i] + carry) \div LimbBase,
                 sum \o <<(a[i] + b[i] + carry) % LimbBase>>)

AddLimbs(a, b) == AddFrom(a, b, 1, 0, <<>>)

\* the number of bits of a number
BitLength(limbs) ==
    IF limbs = FloatZero
    THEN 0
    ELSE LET top == CHOOSE i \in 1..5 : limbs[i] # 0 /\ \A j \in (i + 1)..5 : limbs[j] = 0
         IN 18 * (top - 1) + CHOOSE n \in 1..18 : 2 ^ (n - 1) <= limbs[top] /\ limbs[top] < 2 ^ n

\* bit p of a number, the lowest being bit 1
BitAt(limbs, p) == (limbs[((p - 1) \div 18) + 1] \div (2 ^ ((p - 1) % 18))) % 2

\* the d lowest bits of a number, d at most 30
LowBits(limbs, d) ==
    IF d <= 18 THEN limbs[1] % (2 ^ d)
    ELSE limbs[1] + LimbBase * (limbs[2] % (2 ^ (d - 18)))

\* 2^d, d at most 30
PowerOfTwo(d) == IF d < 18 THEN <<2 ^ d, 0, 0, 0, 0>> ELSE <<0, 2 ^ (d - 18), 0, 0, 0>>

\* the float nearest to an exact value of more than 53 bits: the d bits below
\* the 53 highest are dropped, the value goes up when they are more than half
\* of the last kept bit, or half of it with the last kept bit odd
RoundToDropped(limbs, inexact, d) ==
    LET low == LowBits(limbs, d)
        half == 2 ^ (d - 1)
        kept == [limbs EXCEPT ![1] = @ - (low % LimbBase), ![2] = @ - (low \div LimbBase)]
    IN IF low > half \/ (low = half /\ (inexact \/ BitAt(limbs, d + 1) = 1))
       THEN AddLimbs(kept, PowerOfTwo(d))
       ELSE kept

RoundToNearestEven(limbs, inexact) ==
    With(BitLength(limbs), LAMBDA length :
        IF length <= 53 THEN limbs ELSE RoundToDropped(limbs, inexact, length - 53))

\* float(text) of a text of up to 2000 in thousandths: the float nearest to
\* thousandths / 1000, that is to thousandths * 2^64 / 1000 of the unit
float_of_thousandths(thousandths) ==
    With(DivideFrom(<<0, 0, 0, (thousandths * (2 ^ 10)) % LimbBase,
                      (thousandths * (2 ^ 10)) \div LimbBase>>, 1000, 5, 0, <<>>), LAMBDA q :
        RoundToNearestEven(q.limbs, q.inexact))

\* a + b of two floats
float_add(a, b) == With(AddLimbs(a, b), LAMBDA sum : RoundToNearestEven(sum, FALSE))

\* a <= b of two floats
float_leq(a, b) ==
    \/ a = b
    \/ \E i \in 1..5 : a[i] < b[i] /\ \A j \in (i + 1)..5 : a[j] = b[j]

\* total += float(...) of one row, the row skipped when float raises
\* (lines 1768-1770 and 1807-1810)
AddStoredDrop(total, row) ==
    IF row.dU.k = "num" THEN float_add(total, float_of_thousandths(FloatOf(row.dU)))
    ELSE total

\* lines 1765-1770: the for loop of _sum_drop_for_circuit from row i on
RECURSIVE SumDropFrom(_, _, _, _)
SumDropFrom(table, circuit, i, total) ==
    IF i > Len(table) THEN total
    ELSE SumDropFrom(table, circuit, i + 1,
                     IF table[i].circuit = circuit THEN AddStoredDrop(total, table[i])
                     ELSE total)

\* lines 1761-1771
sum_drop_for_circuit(circuit, table) ==
    IF circuit = "" THEN FloatZero ELSE SumDropFrom(table, circuit, 1, FloatZero)

\* the float the chain walk holds in total after the rows it found, in the
\* order it found them (lines 1787 and 1807-1810)
RECURSIVE ChainTotalFrom(_, _, _)
ChainTotalFrom(table, used, total) ==
    IF used = <<>> THEN total
    ELSE ChainTotalFrom(table, Tail(used), AddStoredDrop(total, table[Head(used)]))

(***************************************************************************)
(* The input form.  Labels are strings, numeric fields are texts.          *)
(* VOLTAGE_LEVELS[0] is taken to be "400".                                 *)
(***************************************************************************)
DefaultForm ==
    [circuit |-> "", od |-> "", do |-> "",
     insulation |-> "PVC (70C)", conductor |-> "Cu", laying |-> "C",
     pi |-> EmptyText, kj |-> EmptyText, eta |-> Num(1, <<0>>), U |-> Num(400, <<>>),
     cos |-> EmptyText, L |-> EmptyText, area |-> EmptyText,
     cores |-> Num(3, <<>>), group |-> Num(1, <<>>), parallel |-> Num(1, <<>>),
     medium |-> "air", temp |-> Num(30, <<>>), In |-> EmptyText, k |-> Num(1, <<4, 5>>),
     dropKey |-> "A", S |-> Num(1, <<0>>), T |-> Num(1, <<0>>)]

\* every derived value reads "-" until a recomputation sets it; the last five
\* fields are locals of the recomputation that its verdicts read
BlankIv ==
    [Pj |-> None, Icalc |-> None, R_base |-> None, Iz |-> None, S |-> None, T |-> None,
     dU |-> None, total_dU |-> None, limit |-> None, by_current |-> "-", by_dU |-> "-",
     in_range |-> None, I2 |-> None, protection |-> "-", compat |-> "-", recs |-> <<>>,
     base_ampacity |-> None, icalc_per_cable |-> None, in_value |-> None,
     k_value |-> None, n_parallel |-> 1]

\* a messagebox call: its message key and, for the temperature warning, its triple
Note(kind, key) == [kind |-> kind, key |-> key]

(***************************************************************************)
(* _show_temperature_warning (lines 1340-1359): the new value of           *)
(* _last_temperature_warning and the messages shown.  The caller runs it   *)
(* only while the temperature field is not being edited.                   *)
(***************************************************************************)
TemperatureKey(insulation_key, medium, temperature) ==
    <<insulation_key, medium, Round1(temperature)>>

show_temperature_warning_Always(editing, lastw, insulation_key, medium, temperature) ==
    LET key == TemperatureKey(insulation_key, medium, temperature)
    IN [lastw |-> key, notes |-> <<Note("warning.temperature_range_msg", key)>>]

show_temperature_warning(editing, lastw, insulation_key, medium, temperature) ==
    LET key == TemperatureKey(insulation_key, medium, temperature)
    IN IF editing THEN [lastw |-> lastw, notes |-> <<>>]
       ELSE IF lastw = key THEN [lastw |-> lastw, notes |-> <<>>]
       ELSE [lastw |-> key, notes |-> <<Note("warning.temperature_range_msg", key)>>]

\* lines 1490-1493: the one-time warning for three loaded cores at 230 V
voltage_phase_warning_Unlatched(voltage_alert, shown) ==
    [shown |-> shown,
     notes |-> IF voltage_alert /\ ~shown THEN <<Note("warning.voltage_phase", <<>>)>> ELSE <<>>]

voltage_phase_warning(voltage_alert, shown) ==
    IF voltage_alert /\ ~shown
    THEN [shown |-> TRUE, notes |-> <<Note("warning.voltage_phase", <<>>)>>]
    ELSE [shown |-> shown, notes |-> <<>>]

(***************************************************************************)
(* The verdicts of _update_intermediate_results.                           *)
(***************************************************************************)
\* lines 1566-1572
AmpacityStatus_NoNA(base_ampacity, iz_one, icalc_per_cable) ==
    IF IsNone(iz_one) \/ IsNone(icalc_per_cable) THEN "-"
    ELSE IF Val(icalc_per_cable) <= Val(iz_one) THEN "OK" ELSE "NE"

AmpacityStatus(base_ampacity, iz_one, icalc_per_cable) ==
    IF IsNone(base_ampacity) THEN "N/A"
    ELSE IF IsNone(iz_one) \/ IsNone(icalc_per_cable) THEN "-"
    ELSE IF Val(icalc_per_cable) <= Val(iz_one) THEN "OK" ELSE "NE"

\* lines 1599-1607
DropStatus(delta_u, limit_delta) ==
    IF ~IsNone(delta_u) /\ ~IsNone(limit_delta)
    THEN IF Val(delta_u) <= Val(limit_delta) THEN "OK" ELSE "NE"
    ELSE IF ~IsNone(delta_u) THEN "-"
    ELSE "None"

\* lines 1645-1658
ProtectionStatus_NoOverload(iz_one, icalc_total, in_value, i2_value, n_parallel) ==
    IF IsNone(iz_one) \/ IsNone(icalc_total) \/ IsNone(in_value) \/ IsNone(i2_value)
    THEN IF IsNone(in_value) \/ IsNone(i2_value) THEN "-" ELSE "N/A"
    ELSE LET iz_total == Val(iz_one) * n_parallel
             within_nominal == Val(icalc_total) <= Val(in_value) /\ Val(in_value) <= iz_total
         IN IF within_nominal THEN "OK" ELSE "NE"

ProtectionStatus(iz_one, icalc_total, in_value, i2_value, n_parallel) ==
    IF IsNone(iz_one) \/ IsNone(icalc_total) \/ IsNone(in_value) \/ IsNone(i2_value)
    THEN IF IsNone(in_value) \/ IsNone(i2_value) THEN "-" ELSE "N/A"
    ELSE LET iz_total == Val(iz_one) * n_parallel
             within_nominal == Val(icalc_total) <= Val(in_value) /\ Val(in_value) <= iz_total
             overload_check == Val(i2_value) <= MulK(1450, iz_total)
         IN IF within_nominal /\ overload_check THEN "OK" ELSE "NE"

\* lines 1665-1679
CompatDisplay_AnyFail(base_ampacity, ampacity_status, drop_status, protection_status) ==
    IF IsNone(base_ampacity) THEN "status.na"
    ELSE IF "NE" \in {ampacity_status, drop_status, protection_status} THEN "status.fail"
    ELSE IF {ampacity_status, drop_status, protection_status} = {"OK"} THEN "status.ok"
    ELSE "status.fail"

CompatDisplay(base_ampacity, ampacity_status, drop_status, protection_status) ==
    IF IsNone(base_ampacity) THEN "status.na"
    ELSE IF {ampacity_status, drop_status, protection_status} = {"OK"} THEN "status.ok"
    ELSE IF "NE" \in {ampacity_status, drop_status, protection_status} THEN "status.fail"
    ELSE "status.na"

\* lines 1708-1716
CompatStored(base_ampacity, ampacity_status, drop_status, protection_status) ==
    IF IsNone(base_ampacity) THEN "status.no_data"
    ELSE IF ampacity_status = "OK" /\ drop_status = "OK" /\ protection_status = "OK"
    THEN "status.ok"
    ELSE IF ampacity_status = "NE" \/ drop_status = "NE" \/ protection_status = "NE"
    THEN "status.fail"
    ELSE "status.na"

(***************************************************************************)
(* _update_intermediate_results (lines 1361-1759), in the order of its     *)
(* code: the inputs read from the form, the factors S and T with the       *)
(* temperature warning, the voltage warning, the currents and the line,    *)
(* the drop, the verdicts, _last_result.                                   *)
(***************************************************************************)
\* int(text) of a count field, `fallback` when it raises or is out of range
CountOr(text, allowed_min, allowed_max, fallback) ==
    LET n == IntOf(text)
    IN IF ~IsNone(n) /\ allowed_min <= Val(n) /\ Val(n) <= allowed_max THEN Val(n)
       ELSE fallback

\* cos_phi, area, length, in_value, k_value: None when out of the domain
Positive(value) == IF ~IsNone(value) /\ Val(value) <= 0 THEN None ELSE value

NonNegative(value) == IF ~IsNone(value) /\ Val(value) < 0 THEN None ELSE value

UnitRange(value) ==
    IF ~IsNone(value) /\ 0 < Val(value) /\ Val(value) <= 1000 THEN value ELSE None

\* lines 1376-1431, 1472-1488, 1501-1517, 1625-1637: the inputs as the handler reads them
ReadInputs(f, medium) ==
    [has_meta |-> f.insulation \in DOMAIN INSULATION_META,
     insulation_key |-> IF f.insulation \in DOMAIN INSULATION_META
                        THEN INSULATION_META[f.insulation].key ELSE "",
     insulation_theta |-> IF f.insulation \in DOMAIN INSULATION_META
                          THEN INSULATION_META[f.insulation].theta ELSE 0,
     conductor |-> f.conductor,
     laying |-> f.laying,
     medium_key |-> IF medium \in TEMPERATURE_MEDIA THEN medium ELSE "air",
     limit_delta |-> IF f.dropKey \in DOMAIN DROP_LIMIT_KEYS
                     THEN Some(DROP_LIMIT_KEYS[f.dropKey]) ELSE None,
     loaded_cores |-> CountOr(f.cores, 2, 3, 3),
     circuits_count |-> CountOr(f.group, 1, 1000000, 1),
     n_parallel |-> CountOr(f.parallel, 1, 1000000, 1),
     pi |-> try_parse_float(f.pi),
     kj |-> try_parse_float(f.kj),
     eta_coeff |-> UnitRange(try_parse_float(f.eta)),
     cos_phi |-> UnitRange(try_parse_float(f.cos)),
     length |-> NonNegative(try_parse_float(f.L)),
     area |-> Positive(try_parse_float(f.area)),
     temperature |-> try_parse_float(f.temp),
     voltage_value |-> IntOf(f.U),
     in_value |-> Positive(try_parse_float(f.In)),
     k_value |-> Positive(try_parse_float(f.k))]

\* lines 1433-1438
EffectiveCircuits(p) ==
    IF p.n_parallel > 1 THEN Max2(1, p.circuits_count + p.n_parallel - 1)
    ELSE p.circuits_count

GroupCoefficient(p) == lookup_group_factor(EffectiveCircuits(p))

\* lines 1440-1449
TemperatureCoefficient(p) ==
    IF p.has_meta /\ ~IsNone(p.temperature)
    THEN LET temp_factor == lookup_temperature_factor(p.insulation_key, p.medium_key,
                                                      Val(p.temperature))
         IN IF ~IsNone(temp_factor) /\ Val(temp_factor) > 0 THEN temp_factor ELSE None
    ELSE None

\* lines 1451-1462
TemperatureWarning(p, t_coeff, editing, lastw) ==
    IF ~IsNone(t_coeff) THEN [lastw |-> None, notes |-> <<>>]
    ELSE IF ~IsNone(p.temperature) /\ p.has_meta /\ ~editing
    THEN show_temperature_warning(editing, lastw, p.insulation_key, p.medium_key,
                                  Val(p.temperature))
    ELSE [lastw |-> lastw, notes |-> <<>>]

\* lines 1490-1493
VoltageWarning(p, shown) ==
    voltage_phase_warning(p.voltage_value = Some(230) /\ p.loaded_cores = 3, shown)

\* lines 1496-1499
DesignPower(p) ==
    IF ~IsNone(p.pi) /\ ~IsNone(p.kj) THEN Some(MulK(Val(p.pi), Val(p.kj))) ELSE None

\* lines 1519-1533
DesignCurrent(p, pj) ==
    IF ~IsNone(pj) /\ ~IsNone(p.cos_phi) /\ ~IsNone(p.voltage_value)
       /\ p.voltage_value # Some(0) /\ ~IsNone(p.eta_coeff)
    THEN LET denominator == MulK(PhaseFactor(p.loaded_cores) * Val(p.voltage_value),
                                 Val(p.cos_phi))
         IN IF denominator # 0
            THEN Some(DivK(DivK(Val(pj), Val(p.eta_coeff)), denominator)) ELSE None
    ELSE None

\* lines 1535-1541
LineImpedance(p) ==
    IF ~IsNone(p.area) /\ p.has_meta
    THEN Some(calculate_line_impedance(p.conductor, p.insulation_theta, Val(p.area), p.laying))
    ELSE None

\* lines 1543-1547
BaseAmpacity(p) ==
    IF ~IsNone(p.area) /\ p.has_meta
    THEN lookup_ampacity(p.insulation_key, p.conductor, p.laying, Val(p.area), p.loaded_cores)
    ELSE None

\* lines 1549-1554
AmpacityOne(base_ampacity, s_coeff, t_coeff) ==
    IF ~IsNone(base_ampacity) /\ ~IsNone(t_coeff)
    THEN Some(MulK(MulK(Val(base_ampacity), s_coeff), Val(t_coeff))) ELSE None

\* lines 1579-1597
DeltaU(p, icalc_total, z) ==
    IF ~IsNone(icalc_total) /\ ~IsNone(p.length) /\ ~IsNone(p.cos_phi) /\ ~IsNone(z)
       /\ ~IsNone(p.voltage_value) /\ p.voltage_value # Some(0)
    THEN Some(DropFormula(PhaseFactor(p.loaded_cores), Val(icalc_total), Val(z)[1], Val(z)[2],
                          Max2(p.n_parallel, 1), Val(p.cos_phi), Val(p.length),
                          Val(p.voltage_value)))
    ELSE None

\* lines 1612-1623
TotalDrop(delta_u, existing_drop) ==
    IF ~IsNone(delta_u) THEN Some(existing_drop + Val(delta_u))
    ELSE IF existing_drop > 0 THEN Some(existing_drop) ELSE None

\* lines 1639-1643
I2Value(p) ==
    IF ~IsNone(p.in_value) /\ ~IsNone(p.k_value)
    THEN Some(MulK(Val(p.in_value), Val(p.k_value))) ELSE None

\* lines 1683-1718
StoredResult(p, q, v) ==
    IF ~IsNone(q.icalc_total) /\ ~IsNone(q.delta_u) /\ p.has_meta /\ ~IsNone(q.pj)
    THEN Some([pj |-> Val(q.pj), s_coeff |-> q.s_coeff,
               t_coeff |-> IF IsNone(q.t_coeff) THEN 1000 ELSE Val(q.t_coeff),
               icalc_total |-> Val(q.icalc_total), r_per_km |-> Val(q.z)[1],
               sigma |-> IF p.conductor \in DOMAIN RESISTIVITY_20
                            /\ RESISTIVITY_20[p.conductor] > 0
                         THEN Some(DivK(1000000, RESISTIVITY_20[p.conductor]))
                         ELSE None,
               iz_one |-> q.iz_one, delta_u |-> Val(q.delta_u),
               ampacity_ok |-> v.ampacity_status, drop_ok |-> v.drop_status,
               protection_status |-> v.protection_status,
               i2_value |-> q.i2_value, in_value |-> p.in_value, k_value |-> p.k_value,
               compatibility_status |-> CompatStored(q.base_ampacity, v.ampacity_status,
                                                     v.drop_status, v.protection_status)])
    ELSE None

(***************************************************************************)
(* _recommend (lines 1091-1277): up to four remedies, each a record of     *)
(* what its line of text says.                                             *)
(***************************************************************************)
\* the arguments of the call (lines 1741-1757); S and T are read back from
\* the form fields the handler has just written
\* the arguments if S and T were read from the form before this run wrote them
RecommendArgs_StaleForm(f, p, q) ==
    [U |-> IF IsNone(p.voltage_value) THEN 0 ELSE Val(p.voltage_value),
     cos_phi |-> IF IsNone(p.cos_phi) THEN 0 ELSE Val(p.cos_phi),
     L |-> IF IsNone(p.length) THEN 0 ELSE Val(p.length),
     conductor |-> f.conductor,
     insulation_key |-> IF p.has_meta THEN p.insulation_key ELSE "PVC",
     insulation_theta |-> IF p.has_meta THEN p.insulation_theta ELSE 70,
     method |-> f.laying,
     loaded_cores |-> IF IsNone(IntOf(f.cores)) THEN 3 ELSE Val(IntOf(f.cores)),
     S |-> IF f.S.k = "num" THEN FloatOf(f.S) ELSE 1000,
     T |-> IF f.T.k = "num" THEN FloatOf(f.T) ELSE 1000,
     limit_pct |-> p.limit_delta,
     current_area |-> IF IsNone(try_parse_float(f.area)) THEN 0
                      ELSE Val(try_parse_float(f.area)),
     parallel_count |-> Max2(p.n_parallel, 1),
     icalc_total |-> IF IsNone(q.icalc_total) THEN 0 ELSE Val(q.icalc_total)]

RecommendArgs(f, p, q) ==
    [U |-> IF IsNone(p.voltage_value) THEN 0 ELSE Val(p.voltage_value),
     cos_phi |-> IF IsNone(p.cos_phi) THEN 0 ELSE Val(p.cos_phi),
     L |-> IF IsNone(p.length) THEN 0 ELSE Val(p.length),
     conductor |-> f.conductor,
     insulation_key |-> IF p.has_meta THEN p.insulation_key ELSE "PVC",
     insulation_theta |-> IF p.has_meta THEN p.insulation_theta ELSE 70,
     method |-> f.laying,
     loaded_cores |-> IF IsNone(IntOf(f.cores)) THEN 3 ELSE Val(IntOf(f.cores)),
     S |-> FloatOf(fmt(q.s_coeff, 2)),
     T |-> IF IsNone(q.t_coeff) THEN 1000 ELSE FloatOf(fmt(Val(q.t_coeff), 2)),
     limit_pct |-> p.limit_delta,
     current_area |-> IF IsNone(try_parse_float(f.area)) THEN 0
                      ELSE Val(try_parse_float(f.area)),
     parallel_count |-> Max2(p.n_parallel, 1),
     icalc_total |-> IF IsNone(q.icalc_total) THEN 0 ELSE Val(q.icalc_total)]

\* self.STANDARD_SECTIONS[0] of an empty catalogue raises IndexError (line 1115)
recommend_raises(a) ==
    ~(a.icalc_total = 0 \/ a.S <= 0 \/ a.T <= 0) /\ STANDARD_SECTIONS = <<>>

RecommendMinSection(a) == Max2(a.current_area, STANDARD_SECTIONS[1])

\* the section loop of the remedies 1 to 3, from section i on: the first
\* section that carries the current within the drop limit
RECURSIVE RecommendScan(_, _, _, _, _)
RecommendScan(a, insulation_key, insulation_theta, method, i) ==
    IF i > Len(STANDARD_SECTIONS) THEN None
    ELSE With(STANDARD_SECTIONS[i], LAMBDA area_candidate :
         With(lookup_ampacity(insulation_key, a.conductor, method, area_candidate,
                              a.loaded_cores), LAMBDA iz_base :
         With(IF IsNone(iz_base) THEN 0 ELSE MulK(MulK(Val(iz_base), a.S), a.T), LAMBDA iz_one :
         With(drop_pct(a.U, a.cos_phi, a.L, a.conductor, insulation_theta, area_candidate,
                       method, a.loaded_cores, a.parallel_count, a.icalc_total), LAMBDA drop_val :
             IF \/ area_candidate < RecommendMinSection(a)
                \/ IsNone(iz_base) \/ iz_base = Some(0)
                \/ iz_one * a.parallel_count < a.icalc_total
                \/ (~IsNone(a.limit_pct) /\ drop_val > Val(a.limit_pct))
             THEN RecommendScan(a, insulation_key, insulation_theta, method, i + 1)
             ELSE Some([area |-> area_candidate, method |-> method, iz_one |-> iz_one,
                        drop_val |-> drop_val])))))

\* the loop over METHOD_PREFERENCE of remedy 2, from entry k on
RECURSIVE RecommendMethod(_, _)
RecommendMethod(a, k) ==
    IF k > Len(METHOD_PREFERENCE) THEN None
    ELSE IF METHOD_PREFERENCE[k] = a.method THEN RecommendMethod(a, k + 1)
    ELSE With(RecommendScan(a, a.insulation_key, a.insulation_theta, METHOD_PREFERENCE[k], 1),
              LAMBDA found : IF IsNone(found) THEN RecommendMethod(a, k + 1) ELSE found)

\* candidate_description and the two lines built in place
RecommendLine(action, a, area, method, n, iz_one, drop_val) ==
    [action |-> action, area |-> fmt(area, IF area % 1000 = 0 THEN 0 ELSE 1),
     method |-> method, n |-> n, iz_total |-> fmt(iz_one * n, 0), drop |-> fmt(drop_val, 2)]

RecommendFound(action, a, found) ==
    IF IsNone(found) THEN <<>>
    ELSE <<RecommendLine(action, a, Val(found).area, Val(found).method, a.parallel_count,
                         Val(found).iz_one, Val(found).drop_val)>>

\* remedy 4 (lines 1235-1273): more parallel cables of the current section
RecommendParallel(a) ==
    IF IsNone(a.limit_pct) THEN <<>>
    ELSE With(Max2(RecommendMinSection(a),
                   IF a.current_area = 0 THEN STANDARD_SECTIONS[1] ELSE a.current_area),
              LAMBDA base_area :
         With(drop_pct(a.U, a.cos_phi, a.L, a.conductor, a.insulation_theta, base_area,
                       a.method, a.loaded_cores, a.parallel_count, a.icalc_total),
              LAMBDA drop_current :
         With(lookup_ampacity(a.insulation_key, a.conductor, a.method, base_area,
                              a.loaded_cores), LAMBDA iz_base :
             IF drop_current <= Val(a.limit_pct) \/ IsNone(iz_base) \/ iz_base = Some(0)
             THEN <<>>
             ELSE With(MulK(MulK(Val(iz_base), a.S), a.T), LAMBDA iz_one :
                  With(Max2(a.parallel_count + 1,
                            (drop_current * a.parallel_count + Max2(Val(a.limit_pct), 1) - 1)
                                \div Max2(Val(a.limit_pct), 1)), LAMBDA n_needed :
                      IF iz_one <= 0 THEN <<>>
                      ELSE <<RecommendLine("parallel", a, base_area, a.method, n_needed, iz_one,
                                           drop_pct(a.U, a.cos_phi, a.L, a.conductor,
                                                    a.insulation_theta, base_area, a.method,
                                                    a.loaded_cores, n_needed,
                                                    a.icalc_total))>>)))))

RecommendAll(a) ==
    RecommendFound("section", a,
                   RecommendScan(a, a.insulation_key, a.insulation_theta, a.method, 1))
    \o RecommendFound("method", a, RecommendMethod(a, 1))
    \o (IF a.insulation_key = "PVC"
        THEN RecommendFound("xlpe", a,
                            RecommendScan(a, "XLPE", INSULATION_META["XLPE/EPR (90C)"].theta,
                                          a.method, 1))
        ELSE <<>>)
    \o RecommendParallel(a)

recommend(a) ==
    IF a.icalc_total = 0 \/ a.S <= 0 \/ a.T <= 0 THEN <<>>
    ELSE With(RecommendAll(a), LAMBDA recs :
             IF recs = <<>> THEN <<[action |-> "generic"]>>
             ELSE SubSeq(recs, 1, Min2(4, Len(recs))))

\* lines 1720-1759: the remedies shown, none unless a verdict is an explicit
\* fail; when _recommend raises, the label keeps the dash it was reset to
RecommendationsRaise(f, p, q, v) ==
    (v.ampacity_status = "NE" \/ v.drop_status = "NE")
    /\ recommend_raises(RecommendArgs(f, p, q))

Recommendations(f, p, q, v) ==
    IF (v.ampacity_status = "NE" \/ v.drop_status = "NE") /\ ~RecommendationsRaise(f, p, q, v)
    THEN recommend(RecommendArgs(f, p, q))
    ELSE <<>>

\* the quantities, the current of one cable taken as the whole current
QuantitiesWith_Undivided(p, s_coeff, t_coeff, pj, icalc_total, z, base_ampacity) ==
    [s_coeff |-> s_coeff, t_coeff |-> t_coeff, pj |-> pj, icalc_total |-> icalc_total,
     icalc_per_cable |-> icalc_total,
     z |-> z, base_ampacity |-> base_ampacity,
     iz_one |-> AmpacityOne(base_ampacity, s_coeff, t_coeff),
     delta_u |-> DeltaU(p, icalc_total, z),
     i2_value |-> I2Value(p)]

\* the quantities computed from the inputs
QuantitiesWith(p, s_coeff, t_coeff, pj, icalc_total, z, base_ampacity) ==
    [s_coeff |-> s_coeff, t_coeff |-> t_coeff, pj |-> pj, icalc_total |-> icalc_total,
     icalc_per_cable |-> IF IsNone(icalc_total) THEN None
                         ELSE Some(Val(icalc_total) \div Max2(p.n_parallel, 1)),
     z |-> z, base_ampacity |-> base_ampacity,
     iz_one |-> AmpacityOne(base_ampacity, s_coeff, t_coeff),
     delta_u |-> DeltaU(p, icalc_total, z),
     i2_value |-> I2Value(p)]

Quantities(p) ==
    With(GroupCoefficient(p), LAMBDA s_coeff :
    With(TemperatureCoefficient(p), LAMBDA t_coeff :
    With(DesignPower(p), LAMBDA pj :
    With(DesignCurrent(p, pj), LAMBDA icalc_total :
    With(LineImpedance(p), LAMBDA z :
    With(BaseAmpacity(p), LAMBDA base_ampacity :
        QuantitiesWith(p, s_coeff, t_coeff, pj, icalc_total, z, base_ampacity)))))))

\* the three verdicts
Verdicts(p, q) ==
    [ampacity_status |-> AmpacityStatus(q.base_ampacity, q.iz_one, q.icalc_per_cable),
     drop_status |-> DropStatus(q.delta_u, p.limit_delta),
     protection_status |-> ProtectionStatus(q.iz_one, q.icalc_total, p.in_value, q.i2_value,
                                            p.n_parallel)]

\* what the handler writes
Written(f, p, q, v, warning, voltage_warning, existing_drop) ==
    [form |-> [f EXCEPT !.S = fmt(q.s_coeff, 2),
                        !.T = IF IsNone(q.t_coeff) THEN EmptyText ELSE fmt(Val(q.t_coeff), 2)],
     iv |-> [Pj |-> q.pj, Icalc |-> q.icalc_total,
             R_base |-> IF IsNone(q.z) THEN None ELSE Some(Val(q.z)[1]),
             Iz |-> q.iz_one, S |-> Some(q.s_coeff), T |-> q.t_coeff, dU |-> q.delta_u,
             total_dU |-> TotalDrop(q.delta_u, existing_drop),
             limit |-> p.limit_delta, by_current |-> v.ampacity_status,
             by_dU |-> IF v.drop_status = "None" THEN "-" ELSE v.drop_status,
             in_range |-> IF ~IsNone(q.icalc_total) /\ ~IsNone(q.iz_one)
                          THEN Some(<<Val(q.icalc_total), Val(q.iz_one) * p.n_parallel>>)
                          ELSE None,
             I2 |-> q.i2_value, protection |-> v.protection_status,
             compat |-> CompatDisplay(q.base_ampacity, v.ampacity_status, v.drop_status,
                                      v.protection_status),
             recs |-> Recommendations(f, p, q, v),
             base_ampacity |-> q.base_ampacity, icalc_per_cable |-> q.icalc_per_cable,
             in_value |-> p.in_value, k_value |-> p.k_value, n_parallel |-> p.n_parallel],
     last_result |-> StoredResult(p, q, v),
     lastw |-> warning.lastw,
     shown |-> voltage_warning.shown,
     medium |-> p.medium_key,
     notes |-> warning.notes \o voltage_warning.notes,
     raised |-> IF RecommendationsRaise(f, p, q, v) THEN "IndexError" ELSE ""]

\* the handler left at line 1434 by the ValueError of _lookup_group_factor:
\* every derived value was reset to the dash (lines 1367-1371) and the limit
\* shown (lines 1388-1392); nothing else was written (last_result: see Update)
AbortedAtGroupFactor(f, p, lastw, shown) ==
    [form |-> f,
     iv |-> [BlankIv EXCEPT !.limit = p.limit_delta],
     last_result |-> None,
     lastw |-> lastw,
     shown |-> shown,
     medium |-> p.medium_key,
     notes |-> <<>>,
     raised |-> "ValueError"]

Completed(f, p, editing, lastw, shown, table) ==
    With(Quantities(p), LAMBDA q :
    With(Verdicts(p, q), LAMBDA v :
    With(TemperatureWarning(p, q.t_coeff, editing, lastw), LAMBDA warning :
    With(VoltageWarning(p, shown), LAMBDA voltage_warning :
        Written(f, p, q, v, warning, voltage_warning,
                sum_drop_chain_ending_at(f.circuit, f.od, table, f))))))

Recompute(f, medium, editing, lastw, shown, table) ==
    With(ReadInputs(f, medium), LAMBDA p :
        IF lookup_group_factor_raises(EffectiveCircuits(p))
        THEN AbortedAtGroupFactor(f, p, lastw, shown)
        ELSE Completed(f, p, editing, lastw, shown, table))

(***************************************************************************)
(* Handlers as transformers of the program state st = [form, medium,       *)
(* editing, lastw, shown, iv, last_result, table, notes, raised]; notes    *)
(* collects the messages the running handler has shown, raised is the      *)
(* first exception one of its recomputations ended with.                   *)
(***************************************************************************)
Update(st) ==
    With(st, LAMBDA s :
    With(Recompute(s.form, s.medium, s.editing, s.lastw, s.shown, s.table), LAMBDA r :
        [s EXCEPT !.form = r.form, !.medium = r.medium, !.lastw = r.lastw,
                  !.shown = r.shown, !.iv = r.iv,
                  !.last_result = IF r.raised = "ValueError" THEN @ ELSE r.last_result,
                  !.notes = @ \o r.notes,
                  !.raised = IF @ = "" THEN r.raised ELSE @]))

\* var.set(value): the write traces run _update_intermediate_results
\* (lines 904-909); "Pi, W" and "Kj" also carry _update_pj_display
\* (lines 1279-1287), which runs it once more
SetField(st, field, value) ==
    With([st EXCEPT !.form = [@ EXCEPT ![field] = value]], LAMBDA written :
        IF field \in {"pi", "kj"} THEN Update(Update(written)) ELSE Update(written))

(***************************************************************************)
(* select_optimal_parameters (lines 1814-2001).                            *)
(***************************************************************************)
\* _parse_float (lines 920-932): the value, or the error shown
parse_float(t) ==
    IF t.k = "empty" THEN [val |-> None, notes |-> <<Note("error.input_empty", <<>>)>>]
    ELSE IF t.k # "num" THEN [val |-> None, notes |-> <<Note("error.input_invalid", <<>>)>>]
    ELSE [val |-> Some(FloatOf(t)), notes |-> <<>>]

\* _validate_counts (lines 1295-1317)
validate_counts(f) ==
    LET c == IntOf(f.cores)
        g == IntOf(f.group)
        p == IntOf(f.parallel)
    IN IF IsNone(c) \/ Val(c) \notin {2, 3}
       THEN [loaded_cores |-> 3, circuits_count |-> 1, n_parallel |-> 1,
             err |-> "error.loaded_cores_2_3"]
       ELSE IF IsNone(g) \/ Val(g) < 1
       THEN [loaded_cores |-> Val(c), circuits_count |-> 1, n_parallel |-> 1,
             err |-> "error.circuits_min_1"]
       ELSE IF IsNone(p) \/ Val(p) < 1
       THEN [loaded_cores |-> Val(c), circuits_count |-> Val(g), n_parallel |-> 1,
             err |-> "error.parallel_min_1"]
       ELSE [loaded_cores |-> Val(c), circuits_count |-> Val(g), n_parallel |-> Val(p),
             err |-> ""]

\* lines 1891-1899: the ratings that parse, in catalogue order
RECURSIVE BreakerValues(_, _)
BreakerValues(ratings, j) ==
    IF j > Len(ratings) THEN <<>>
    ELSE IF ratings[j].k = "num"
         THEN <<[str |-> ratings[j], value |-> FloatOf(ratings[j])]>> \o BreakerValues(ratings, j + 1)
         ELSE BreakerValues(ratings, j + 1)

Rejected(shown_errors) == [ok |-> FALSE, notes |-> shown_errors, ctx |-> None]

\* lines 1817-1906: the validation; ctx holds the fixed inputs of the search
OptValidate(f, medium) ==
    LET counts == validate_counts(f)
        pi == parse_float(f.pi)
        kj == parse_float(f.kj)
        eta == parse_float(f.eta)
        cos_phi == parse_float(f.cos)
        length == parse_float(f.L)
        voltage_value == IntOf(f.U)
        insulation_meta == INSULATION_META[f.insulation]
        temperature == try_parse_float(f.temp)
        temp_factor == lookup_temperature_factor(insulation_meta.key, medium, Val(temperature))
        t_coeff == IF IsNone(temperature) THEN 1000 ELSE Val(temp_factor)
        effective_circuits == IF counts.n_parallel > 1
                              THEN Max2(1, counts.circuits_count + counts.n_parallel - 1)
                              ELSE counts.circuits_count
        pj == MulK(Val(pi.val), Val(kj.val))
        phase_factor == PhaseFactor(counts.loaded_cores)
        denominator == MulK(phase_factor * Val(voltage_value), Val(cos_phi.val))
        icalc_total == DivK(DivK(pj, Val(eta.val)), denominator)
        k_raw == try_parse_float(f.k)
        breaker_values == BreakerValues(STANDARD_BREAKER_RATINGS, 1)
    IN IF f.insulation \notin DOMAIN INSULATION_META
       THEN Rejected(<<Note("error.insulation_not_selected", <<>>)>>)
       ELSE IF counts.err # "" THEN Rejected(<<Note(counts.err, <<>>)>>)
       ELSE IF IsNone(pi.val) THEN Rejected(pi.notes)
       ELSE IF IsNone(kj.val) THEN Rejected(kj.notes)
       ELSE IF IsNone(eta.val) THEN Rejected(eta.notes)
       ELSE IF ~(0 < Val(eta.val) /\ Val(eta.val) <= 1000)
       THEN Rejected(<<Note("error.eta_range", <<>>)>>)
       ELSE IF IsNone(cos_phi.val) \/ ~(0 < Val(cos_phi.val) /\ Val(cos_phi.val) <= 1000)
       THEN Rejected(cos_phi.notes \o <<Note("error.cos_phi_range", <<>>)>>)
       ELSE IF IsNone(length.val) \/ Val(length.val) < 0
       THEN Rejected(length.notes \o <<Note("error.length_non_neg", <<>>)>>)
       ELSE IF IsNone(voltage_value) THEN Rejected(<<Note("error.voltage_required", <<>>)>>)
       ELSE IF ~IsNone(temperature) /\ (IsNone(temp_factor) \/ Val(temp_factor) <= 0)
       THEN Rejected(<<Note("error.temperature_range_kt", <<>>)>>)
       ELSE IF denominator = 0 THEN Rejected(<<Note("error.division_zero", <<>>)>>)
       ELSE IF icalc_total <= 0 THEN Rejected(<<Note("error.icalc_positive", <<>>)>>)
       ELSE IF breaker_values = <<>>
       THEN Rejected(<<Note("error.breaker_ratings_required", <<>>)>>)
       ELSE [ok |-> TRUE, notes |-> <<>>,
             ctx |-> Some([insulation_key |-> insulation_meta.key,
                           insulation_theta |-> insulation_meta.theta,
                           conductor |-> f.conductor, method |-> f.laying,
                           loaded_cores |-> counts.loaded_cores,
                           n_parallel |-> counts.n_parallel,
                           s_coeff |-> lookup_group_factor(effective_circuits),
                           t_coeff |-> t_coeff, icalc_total |-> icalc_total,
                           voltage_value |-> Val(voltage_value), cos_phi |-> Val(cos_phi.val),
                           length |-> Val(length.val),
                           limit_pct |-> IF f.dropKey \in DOMAIN DROP_LIMIT_KEYS
                                         THEN Some(DROP_LIMIT_KEYS[f.dropKey]) ELSE None,
                           k_value |-> IF IsNone(k_raw) \/ Val(k_raw) <= 0
                                       THEN 1450 ELSE Val(k_raw),
                           breaker_values |-> breaker_values])]

\* lines 1914-1920: iz_total of a standard section, None when the section is skipped
OptIzTotal(c, area_candidate) ==
    LET iz_base == lookup_ampacity(c.insulation_key, c.conductor, c.method, area_candidate,
                                   c.loaded_cores)
        iz_total == MulK(MulK(Val(iz_base), c.s_coeff), c.t_coeff) * Max2(c.n_parallel, 1)
    IN IF area_candidate <= 0 THEN None
       ELSE IF IsNone(iz_base) \/ iz_base = Some(0) THEN None
       ELSE IF iz_total <= 0 THEN None
       ELSE Some(iz_total)

\* lines 1921-1932
OptDrop(c, area_candidate) ==
    drop_pct(c.voltage_value, c.cos_phi, c.length, c.conductor, c.insulation_theta,
             area_candidate, c.method, c.loaded_cores, c.n_parallel, c.icalc_total)

\* lines 1936-1940
OptCompliant_NoLowerBound(c, iz_total, drop_val, breaker_value) ==
    LET within_current == breaker_value <= iz_total
        drop_ok == IsNone(c.limit_pct) \/ drop_val <= Val(c.limit_pct)
        protection_ok == MulK(breaker_value, c.k_value) <= MulK(1450, iz_total)
    IN within_current /\ drop_ok /\ protection_ok

OptCompliant(c, iz_total, drop_val, breaker_value) ==
    LET within_current == c.icalc_total <= breaker_value /\ breaker_value <= iz_total
        drop_ok == IsNone(c.limit_pct) \/ drop_val <= Val(c.limit_pct)
        protection_ok == MulK(breaker_value, c.k_value) <= MulK(1450, iz_total)
    IN within_current /\ drop_ok /\ protection_ok

\* lines 1944-1949: limit_pct or drop_val is drop_val when the limit is 0.0
OptMetric(c, iz_total, drop_val, breaker_value) ==
    LET over_in_low == Max2(0, c.icalc_total - breaker_value)
        over_in_high == Max2(0, breaker_value - iz_total)
        over_iz == Max2(0, c.icalc_total - iz_total)
        over_drop == IF IsNone(c.limit_pct) THEN 0
                     ELSE Max2(0, drop_val - (IF Val(c.limit_pct) = 0 THEN drop_val
                                               ELSE Val(c.limit_pct)))
        over_i2 == Max2(0, MulK(breaker_value, c.k_value) - MulK(1450, iz_total))
    IN over_in_low + over_in_high + over_iz + over_drop + over_i2

\* the inner loop (lines 1933-1959) from rating j on: the rating that complies
\* (found, 0: none) and the candidates appended before the loop ends
RECURSIVE BreakerScan(_, _, _, _, _, _)
BreakerScan(c, area_candidate, iz_total, drop_val, j, acc) ==
    IF j > Len(c.breaker_values) THEN [found |-> 0, acc |-> acc]
    ELSE LET breaker_value == c.breaker_values[j].value
         IN IF breaker_value <= 0
            THEN BreakerScan(c, area_candidate, iz_total, drop_val, j + 1, acc)
            ELSE IF OptCompliant(c, iz_total, drop_val, breaker_value)
            THEN [found |-> j, acc |-> acc]
            ELSE BreakerScan(c, area_candidate, iz_total, drop_val, j + 1,
                             Append(acc, [metric |-> OptMetric(c, iz_total, drop_val, breaker_value),
                                          area |-> area_candidate, breaker |-> breaker_value,
                                          drop |-> drop_val, iz_total |-> iz_total,
                                          breaker_str |-> c.breaker_values[j].str]))

\* the outer loop (lines 1911-1961) from section i on
RECURSIVE AreaScan(_, _, _)
AreaScan(c, i, acc) ==
    IF i > Len(STANDARD_SECTIONS) THEN [success |-> None, fallback |-> acc]
    ELSE LET area_candidate == STANDARD_SECTIONS[i]
             iz_total == OptIzTotal(c, area_candidate)
             drop_val == OptDrop(c, area_candidate)
             inner == BreakerScan(c, area_candidate, Val(iz_total), drop_val, 1, acc)
         IN IF IsNone(iz_total) THEN AreaScan(c, i + 1, acc)
            ELSE IF inner.found # 0
            THEN [success |-> Some([area |-> area_candidate,
                                    breaker_str |-> c.breaker_values[inner.found].str,
                                    breaker |-> c.breaker_values[inner.found].value,
                                    iz_total |-> Val(iz_total), drop |-> drop_val]),
                  fallback |-> inner.acc]
            ELSE AreaScan(c, i + 1, inner.acc)

\* the sort key (line 1978): (metric, area, breaker value)
KeyLess(a, b) ==
    \/ a.metric < b.metric
    \/ a.metric = b.metric /\ a.area < b.area
    \/ a.metric = b.metric /\ a.area = b.area /\ a.breaker < b.breaker

\* list.sort is stable: an item goes behind the items whose key is not greater
RECURSIVE InsertSorted(_, _)
InsertSorted(sorted, x) ==
    IF sorted = <<>> THEN <<x>>
    ELSE IF KeyLess(x, Head(sorted)) THEN <<x>> \o sorted
    ELSE <<Head(sorted)>> \o InsertSorted(Tail(sorted), x)

RECURSIVE SortCandidates(_, _)
SortCandidates(items, sorted) ==
    IF items = <<>> THEN sorted
    ELSE SortCandidates(Tail(items), InsertSorted(sorted, Head(items)))

\* fallback_candidates[:3] after the sort (lines 1978-1979)
TopItems_Two(fallback_candidates) ==
    LET sorted == SortCandidates(fallback_candidates, <<>>)
    IN SubSeq(sorted, 1, Min2(2, Len(sorted)))

TopItems(fallback_candidates) ==
    LET sorted == SortCandidates(fallback_candidates, <<>>)
    IN SubSeq(sorted, 1, Min2(3, Len(sorted)))

\* str(int(area)) or str(area) (lines 1965-1968): no trailing zeros
AreaText(area) ==
    LET ip == area \div 1000
        d1 == (area \div 100) % 10
        d2 == (area \div 10) % 10
        d3 == area % 10
    IN IF area % 1000 = 0 THEN Num(ip, <<>>)
       ELSE IF area % 100 = 0 THEN Num(ip, <<d1>>)
       ELSE IF area % 10 = 0 THEN Num(ip, <<d1, d2>>)
       ELSE Num(ip, <<d1, d2, d3>>)

\* lines 1974-1976: nothing to rank when no candidate was evaluated
FallbackOutcome_AlwaysRanked(fallback_candidates) == "fallback"

FallbackOutcome(fallback_candidates) ==
    IF fallback_candidates = <<>> THEN "no_combinations" ELSE "fallback"

NoOpt == [outcome |-> "none", ctx |-> None, pair |-> None, top |-> <<>>, evaluated |-> <<>>]

\* lines 1962-1972: the pair found is written to the form
OptSuccess(st1, ctx, search, combo) ==
    [st |-> Update(SetField(SetField(st1, "area", AreaText(combo.area)),
                            "In", combo.breaker_str)),
     opt |-> [outcome |-> "success", ctx |-> ctx,
              pair |-> Some(<<combo.area, combo.breaker>>), top |-> <<>>,
              evaluated |-> search.fallback]]

\* the report when no pair complies, the nearest candidate written to the form
OptFailure_WritesNearest(st1, ctx, search) ==
    IF FallbackOutcome(search.fallback) = "no_combinations"
    THEN [st |-> [st1 EXCEPT !.notes = @ \o <<Note("message.no_combinations", <<>>)>>],
          opt |-> [outcome |-> "no_combinations", ctx |-> ctx, pair |-> None,
                   top |-> <<>>, evaluated |-> <<>>]]
    ELSE [st |-> [Update(SetField(SetField(st1, "area",
                                           AreaText(TopItems(search.fallback)[1].area)),
                                  "In", TopItems(search.fallback)[1].breaker_str))
                  EXCEPT !.notes = @ \o <<Note("message.select_fail", <<>>)>>],
          opt |-> [outcome |-> "fallback", ctx |-> ctx, pair |-> None,
                   top |-> TopItems(search.fallback), evaluated |-> search.fallback]]

\* lines 1974-2001: the report when no pair complies
OptFailure(st1, ctx, search) ==
    IF FallbackOutcome(search.fallback) = "no_combinations"
    THEN [st |-> [st1 EXCEPT !.notes = @ \o <<Note("message.no_combinations", <<>>)>>],
          opt |-> [outcome |-> "no_combinations", ctx |-> ctx, pair |-> None,
                   top |-> <<>>, evaluated |-> <<>>]]
    ELSE [st |-> [st1 EXCEPT !.notes = @ \o <<Note("message.select_fail", <<>>)>>],
          opt |-> [outcome |-> "fallback", ctx |-> ctx, pair |-> None,
                   top |-> TopItems(search.fallback), evaluated |-> search.fallback]]

\* the handler: the new program state and what it reported
OptSearch(st1) ==
    With(OptValidate(st1.form, st1.medium), LAMBDA v :
        IF ~v.ok
        THEN [st |-> [st1 EXCEPT !.notes = @ \o v.notes],
              opt |-> [NoOpt EXCEPT !.outcome = "error"]]
        ELSE With(AreaScan(Val(v.ctx), 1, <<>>), LAMBDA search :
                 IF ~IsNone(search.success)
                 THEN With(Val(search.success), LAMBDA combo :
                           OptSuccess(st1, v.ctx, search, combo))
                 ELSE OptFailure(st1, v.ctx, search)))

\* the handler ends with the exception of its first recomputation, if any
select_optimal_parameters(st) ==
    With(Update(st), LAMBDA st1 :
        IF st1.raised # ""
        THEN [st |-> st1, opt |-> [NoOpt EXCEPT !.outcome = "raised"]]
        ELSE OptSearch(st1))

(***************************************************************************)
(* The segment table: add_row, remove_selected_row, clear_table,           *)
(* load_selected_row and load_project.  A row holds the TREE_COLUMNS but   *)
(* the cable tag "G", a label the engine copies and never reads.           *)
(***************************************************************************)
\* the columns whose cells are labels, and the columns of the table
TextColumns ==
    {"circuit", "OD", "DO", "E", "F", "laying", "by_current", "by_dU", "protection", "key",
     "compat"}

TREE_COLUMNS ==
    TextColumns \cup
    {"nz", "npar", "group", "Pi", "Kj", "eta", "Pj", "U", "cos", "L", "Presek", "S", "T",
     "In", "k", "I2", "Icalc", "R_base", "sigma", "Iz", "dU", "total_dU", "limit"}

\* str(int(x)) and str(x) of a float x
StrInt(x) == [k |-> "num", sg |-> IF x < 0 THEN -1 ELSE 1, ip |-> Abs(x) \div 1000, fr |-> <<>>]

StrFloat(x) ==
    LET a == Abs(x)
        d1 == (a \div 100) % 10
        d2 == (a \div 10) % 10
        d3 == a % 10
    IN [k |-> "num", sg |-> IF x < 0 THEN -1 ELSE 1, ip |-> a \div 1000,
        fr |-> IF a % 100 = 0 THEN <<d1>>
               ELSE IF a % 10 = 0 THEN <<d1, d2>> ELSE <<d1, d2, d3>>]

\* lines 2098-2135: the errors add_row shows for the form, none when it passes
AddRowErrors(f) ==
    LET pi == parse_float(f.pi)
        kj == parse_float(f.kj)
        eta == parse_float(f.eta)
        cos_phi == parse_float(f.cos)
        length == parse_float(f.L)
        area == parse_float(f.area)
        counts == validate_counts(f)
    IN IF IsNone(pi.val) THEN pi.notes
       ELSE IF IsNone(kj.val) THEN kj.notes
       ELSE IF IsNone(eta.val) THEN eta.notes
       ELSE IF Val(eta.val) <= 0 \/ Val(eta.val) > 1000
       THEN <<Note("error.eta_range_field", <<>>)>>
       ELSE IF IsNone(cos_phi.val) \/ Val(cos_phi.val) <= 0 \/ Abs(Val(cos_phi.val)) > 1000
       THEN cos_phi.notes \o <<Note("error.cos_phi_range_field", <<>>)>>
       ELSE IF IsNone(length.val) THEN length.notes
       ELSE IF IsNone(area.val) \/ Val(area.val) = 0
       THEN area.notes \o <<Note("error.area_positive", <<>>)>>
       ELSE IF f.insulation \notin DOMAIN INSULATION_META
       THEN <<Note("error.insulation_unknown", <<>>)>>
       ELSE IF counts.err = "error.loaded_cores_2_3"
       THEN <<Note("error.loaded_cores_2_3_field", <<>>)>>
       ELSE IF counts.err = "error.circuits_min_1" THEN <<Note("error.circuits_1_20", <<>>)>>
       ELSE IF counts.err # "" THEN <<Note("error.parallel_1_6", <<>>)>>
       ELSE <<>>

\* self._fmt(x) if x is not None else ""
FmtOrEmpty(o) == IF IsNone(o) THEN EmptyText ELSE fmt(Val(o), 2)

\* self._fmt(x) of an optional x: the dash for None
FmtOrDash(o) == IF IsNone(o) THEN Dash ELSE fmt(Val(o), 2)

\* lines 2144-2194: row_data
AddRowData(f, res, existing_drop) ==
    LET counts == validate_counts(f)
    IN [circuit |-> f.circuit, OD |-> f.od, DO |-> f.do, E |-> f.insulation,
        F |-> f.conductor,
        nz |-> Num(counts.loaded_cores, <<>>), npar |-> Num(counts.n_parallel, <<>>),
        group |-> Num(counts.circuits_count, <<>>),
        Pi |-> fmt(FloatOf(f.pi), 2), Kj |-> fmt(FloatOf(f.kj), 2),
        eta |-> fmt(FloatOf(f.eta), 3), Pj |-> fmt(res.pj, 2), U |-> f.U,
        cos |-> fmt(FloatOf(f.cos), 3), L |-> fmt(FloatOf(f.L), 2),
        Presek |-> fmt(FloatOf(f.area), 2), laying |-> f.laying,
        S |-> fmt(res.s_coeff, 2), T |-> fmt(res.t_coeff, 2),
        In |-> FmtOrEmpty(res.in_value), k |-> FmtOrEmpty(res.k_value),
        I2 |-> FmtOrEmpty(res.i2_value), Icalc |-> fmt(res.icalc_total, 3),
        R_base |-> fmt(res.r_per_km, 3), sigma |-> FmtOrDash(res.sigma),
        Iz |-> FmtOrDash(res.iz_one), dU |-> fmt(res.delta_u, 2),
        total_dU |-> fmt(existing_drop + res.delta_u, 2),
        limit |-> fmt(IF f.dropKey \in DOMAIN DROP_LIMIT_KEYS
                      THEN DROP_LIMIT_KEYS[f.dropKey] ELSE 0, 2),
        by_current |-> res.ampacity_ok, by_dU |-> res.drop_ok,
        protection |-> res.protection_status, key |-> f.dropKey,
        compat |-> res.compatibility_status]

\* values = [row_data[column] for column in self.TREE_COLUMNS]: what a row of
\* the tree shows of a record
TreeValues(row_data) == [column \in TREE_COLUMNS |-> row_data[column]]

\* self.tree.insert("", tk.END, values=values)
TreeInsertEnd(items, values) == Append(items, values)

\* self._table_data.append(row_data)
AppendRow_First(table, row_data) == <<row_data>> \o table

AppendRow(table, row_data) == Append(table, row_data)

\* lines 2149-2156: the recommendations are shown once more in a dialog
AddRowDialog(st1) ==
    IF (Val(st1.last_result).ampacity_ok = "NE" \/ Val(st1.last_result).drop_ok = "NE")
       /\ st1.iv.recs # <<>>
    THEN <<Note("dialog.recommendations", <<>>)>> ELSE <<>>

\* add_row (lines 2085-2198), after its recomputation
AddRowChecked(st1) ==
    With(AddRowErrors(st1.form), LAMBDA errors :
        IF errors # <<>> THEN [st1 EXCEPT !.notes = @ \o errors]
        ELSE IF IsNone(st1.last_result)
        THEN [st1 EXCEPT !.notes = @ \o <<Note("error.add_row_no_result", <<>>)>>]
        ELSE With(AddRowData(st1.form, Val(st1.last_result),
                             sum_drop_chain_ending_at(st1.form.circuit, st1.form.od,
                                                      st1.table, st1.form)),
                  LAMBDA row_data :
                      [st1 EXCEPT !.notes = @ \o AddRowDialog(st1),
                                  !.tree = TreeInsertEnd(@, TreeValues(row_data)),
                                  !.table = AppendRow(@, row_data)]))

add_row(st) ==
    With(Update(st), LAMBDA st1 : IF st1.raised # "" THEN st1 ELSE AddRowChecked(st1))

\* the rows left when the rows at the selected indices are deleted
RECURSIVE WithoutRows(_, _, _)
WithoutRows(table, selected, i) ==
    IF i > Len(table) THEN <<>>
    ELSE (IF i \in selected THEN <<>> ELSE <<table[i]>>) \o WithoutRows(table, selected, i + 1)

\* del self._table_data[index]
DeleteAt(table, index) == SubSeq(table, 1, index - 1) \o SubSeq(table, index + 1, Len(table))

\* the deletion in ascending order of the indices
RECURSIVE DeleteAscending(_, _, _)
DeleteAscending(table, indexed, k) ==
    IF k = 0 THEN table
    ELSE With(indexed[Len(indexed) - k + 1], LAMBDA index :
             DeleteAscending(IF 1 <= index /\ index <= Len(table) THEN DeleteAt(table, index)
                             ELSE table,
                             indexed, k - 1))

\* lines 2012-2014: for index, _ in reversed(indexed), from entry k down
RECURSIVE DeleteReversed(_, _, _)
DeleteReversed(table, indexed, k) ==
    IF k = 0 THEN table
    ELSE DeleteReversed(IF 1 <= indexed[k] /\ indexed[k] <= Len(table)
                        THEN DeleteAt(table, indexed[k]) ELSE table,
                        indexed, k - 1)

\* remove_selected_row (lines 2003-2015) for the tree indices selected:
\* nothing happens without a selection; the items leave the tree, the
\* records at their indices leave the list
remove_selected_row(st, selected) ==
    IF selected = {} THEN st
    ELSE With(SortedSeq(selected), LAMBDA indexed :
             Update([st EXCEPT !.tree = WithoutRows(@, selected, 1),
                               !.table = DeleteReversed(@, indexed, Len(indexed))]))

\* clear_table (lines 2200-2204)
clear_table(st) == Update([st EXCEPT !.tree = <<>>, !.table = <<>>])

\* lines 2058-2066: the text a cell is put into its form field as
LoadedText(field, value) ==
    IF value.k # "num" THEN value
    ELSE IF field = "area"
    THEN (IF FloatOf(value) % 1000 = 0 THEN StrInt(FloatOf(value)) ELSE StrFloat(FloatOf(value)))
    ELSE IF field \in {"pi", "kj", "eta", "cos", "L"} THEN StrFloat(FloatOf(value))
    ELSE value

\* lines 2029-2080: field_map; an insulation the tables do not know keeps the
\* form's one
LoadedForm(f, row) ==
    [f EXCEPT !.circuit = row.circuit, !.od = row.OD, !.do = row.DO,
              !.insulation = IF row.E # "" /\ row.E \notin DOMAIN INSULATION_META
                             THEN @ ELSE row.E,
              !.conductor = row.F,
              !.pi = LoadedText("pi", row.Pi), !.kj = LoadedText("kj", row.Kj),
              !.eta = LoadedText("eta", row.eta), !.U = row.U,
              !.cos = LoadedText("cos", row.cos), !.L = LoadedText("L", row.L),
              !.area = LoadedText("area", row.Presek), !.laying = row.laying,
              !.cores = row.nz, !.group = row.group, !.parallel = row.npar,
              !.In = row.In, !.k = row.k, !.dropKey = row.key]

\* load_selected_row (lines 2017-2083): the first selected row; the traces
\* are silenced while the fields are set, one recomputation follows
load_selected_row(st, row_index) ==
    IF ~(1 <= row_index /\ row_index <= Len(st.table)) THEN st
    ELSE Update([st EXCEPT !.form = LoadedForm(@, st.table[row_index])])

\* load_project (lines 2229-2279) for a payload [form, medium, table]: the
\* fields of the file are set, the medium key follows its label, the table
\* is replaced; the traces are silenced until the one recomputation at the end
ProjectMedium(st, payload) ==
    IF "medium" \in DOMAIN payload.form /\ payload.form["medium"] \in TEMPERATURE_MEDIA
    THEN payload.form["medium"] ELSE st.medium

\* line 2271: a column the file's row lacks is the empty string
Normalized(row) ==
    [column \in TREE_COLUMNS |->
        IF column \in DOMAIN row THEN row[column]
        ELSE IF column \in TextColumns THEN "" ELSE EmptyText]

\* isinstance(row, dict): an entry of the file's list that is no JSON object
\* is written [json |-> its text]
IsDict(row) == "json" \notin DOMAIN row

\* lines 2267-2274: the entries that are objects, normalized
RECURSIVE NormalizedRows(_)
NormalizedRows(rows) ==
    IF rows = <<>> THEN <<>>
    ELSE (IF IsDict(Head(rows)) THEN <<Normalized(Head(rows))>> ELSE <<>>)
         \o NormalizedRows(Tail(rows))

\* the loop of lines 2267-2274 on the tree: the values of every normalized row
RECURSIVE InsertedRows(_, _)
InsertedRows(items, rows) ==
    IF rows = <<>> THEN items
    ELSE InsertedRows(IF IsDict(Head(rows))
                      THEN TreeInsertEnd(items, TreeValues(Normalized(Head(rows))))
                      ELSE items,
                      Tail(rows))

load_project(st, payload) ==
    Update([st EXCEPT
               !.form = [field \in DOMAIN @ |->
                            IF field = "medium" THEN ProjectMedium(st, payload)
                            ELSE IF field \in DOMAIN payload.form THEN payload.form[field]
                            ELSE @[field]],
               !.medium = ProjectMedium(st, payload),
               !.tree = InsertedRows(<<>>, payload.table),
               !.table = NormalizedRows(payload.table)])

(***************************************************************************)
(* The state machine.                                                      *)
(***************************************************************************)
MaxCount == 2

\* no reference lookup was probed
NoProbe == [fn |-> "none", args |-> <<>>, outcome |-> "none", value |-> 0]

\* the program state the handlers transform, with no message shown yet
Cur ==
    [form |-> form, medium |-> medium_selected_key, editing |-> temperature_editing,
     lastw |-> last_temperature_warning, shown |-> voltage_phase_warning_shown,
     iv |-> iv, last_result |-> last_result, table |-> table_data, tree |-> tree,
     notes |-> <<>>, raised |-> ""]

TemperatureKeysOf(shown_notes) ==
    {shown_notes[i].key : i \in {j \in DOMAIN shown_notes :
                                    shown_notes[j].kind = "warning.temperature_range_msg"}}

CountOf(shown_notes, kind) ==
    Cardinality({j \in DOMAIN shown_notes : shown_notes[j].kind = kind})

\* the history of temperature warnings: how often each triple was warned about
\* (counted up to MaxCount)
Warned(history, key) == IF key \in DOMAIN history THEN history[key] ELSE 0

WarnedAfter(history, shown_notes) ==
    [key \in DOMAIN history \cup TemperatureKeysOf(shown_notes) |->
        Min2(MaxCount, Warned(history, key)
                       + Cardinality({j \in DOMAIN shown_notes : shown_notes[j].key = key}))]

\* the state a handler leaves, and the histories of the messages it showed
Commit(st, name) ==
    /\ form' = st.form
    /\ medium_selected_key' = st.medium
    /\ temperature_editing' = st.editing
    /\ last_temperature_warning' = st.lastw
    /\ voltage_phase_warning_shown' = st.shown
    /\ iv' = st.iv
    /\ last_result' = st.last_result
    /\ notes' = st.notes
    /\ op' = name
    /\ warned' = WarnedAfter(warned, st.notes)
    /\ voltage_warnings' = Min2(MaxCount, voltage_warnings + CountOf(st.notes, "warning.voltage_phase"))
    /\ raised' = st.raised

\* __init__ (lines 271-341): _build_form sets the defaults and
\* _register_form_traces ends with the first recomputation
Constructed ==
    Update([form |-> DefaultForm, medium |-> "air", editing |-> FALSE, lastw |-> None,
            shown |-> FALSE, iv |-> BlankIv, last_result |-> None, table |-> <<>>,
            tree |-> <<>>, notes |-> <<>>, raised |-> ""])

InitApp ==
    /\ form = Constructed.form
    /\ medium_selected_key = Constructed.medium
    /\ temperature_editing = FALSE
    /\ last_temperature_warning = Constructed.lastw
    /\ voltage_phase_warning_shown = Constructed.shown
    /\ iv = Constructed.iv
    /\ last_result = Constructed.last_result
    /\ table_data = <<>>
    /\ tree = <<>>
    /\ walk = WalkIdle
    /\ opt = NoOpt
    /\ notes = Constructed.notes
    /\ op = "init"
    /\ warned = <<>>
    /\ voltage_warnings = 0
    /\ raised = ""
    /\ probe = NoProbe

\* the user changes one input: the write trace recomputes (a passive recomputation)
Edit(domain) ==
    \E field \in DOMAIN domain : \E value \in domain[field] :
        /\ \E st \in {SetField(Cur, field, value)} : Commit(st, "edit")
        /\ opt' = NoOpt
        /\ UNCHANGED <<table_data, tree, catalogue, walk, probe>>

\* _on_temperature_focus_in (lines 1333-1334)
OnTemperatureFocusIn ==
    /\ ~temperature_editing
    /\ \E st \in {[Cur EXCEPT !.editing = TRUE]} : Commit(st, "focus_in")
    /\ UNCHANGED <<table_data, tree, catalogue, walk, opt, probe>>

\* _on_temperature_focus_out (lines 1336-1338)
OnTemperatureFocusOut ==
    /\ temperature_editing
    /\ \E st \in {Update([Cur EXCEPT !.editing = FALSE])} : Commit(st, "focus_out")
    /\ UNCHANGED <<table_data, tree, catalogue, walk, opt, probe>>

\* _on_medium_changed (lines 539-548): the key of the medium the form shows
OnMediumChanged ==
    /\ \E st \in {Update([Cur EXCEPT !.medium = IF form.medium \in TEMPERATURE_MEDIA
                                                 THEN form.medium ELSE @])} :
           Commit(st, "medium")
    /\ UNCHANGED <<table_data, tree, catalogue, walk, opt, probe>>

\* the button "select": select_optimal_parameters
SelectOptimalParameters ==
    \E r \in {select_optimal_parameters(Cur)} :
       /\ Commit(r.st, "select")
       /\ opt' = r.opt
       /\ UNCHANGED <<table_data, tree, catalogue, walk, probe>>

\* the segment table holds up to MaxTable rows
MaxTable == 2

\* the button "add": add_row
AddRow ==
    /\ Len(table_data) < MaxTable
    /\ \E st \in {add_row(Cur)} :
           Commit(st, "add_row") /\ table_data' = st.table /\ tree' = st.tree
    /\ UNCHANGED <<catalogue, walk, opt, probe>>

\* the button "remove" with any selection of rows of the tree
RemoveSelectedRow ==
    \E selected \in SUBSET DOMAIN tree :
        /\ \E st \in {remove_selected_row(Cur, selected)} :
               Commit(st, "remove_selected_row") /\ table_data' = st.table /\ tree' = st.tree
        /\ UNCHANGED <<catalogue, walk, opt, probe>>

\* the button "clear"
ClearTable ==
    /\ \E st \in {clear_table(Cur)} :
           Commit(st, "clear_table") /\ table_data' = st.table /\ tree' = st.tree
    /\ UNCHANGED <<catalogue, walk, opt, probe>>

\* a double click on a row
LoadSelectedRow ==
    \E row_index \in DOMAIN tree :
        /\ \E st \in {load_selected_row(Cur, row_index)} :
               Commit(st, "load_selected_row") /\ table_data' = st.table /\ tree' = st.tree
        /\ UNCHANGED <<catalogue, walk, opt, probe>>

\* the menu "open" with a project file
LoadProject(payloads) ==
    \E payload \in payloads :
        /\ \E st \in {load_project(Cur, payload)} :
               Commit(st, "load_project") /\ table_data' = st.table /\ tree' = st.tree
        /\ UNCHANGED <<catalogue, walk, opt, probe>>

\* the application with the form filled in as f
InitForm(f) ==
    /\ \E st \in {Update([Constructed EXCEPT !.form = f, !.notes = <<>>])} :
          /\ form = st.form
          /\ medium_selected_key = st.medium
          /\ last_temperature_warning = st.lastw
          /\ voltage_phase_warning_shown = st.shown
          /\ iv = st.iv
          /\ last_result = st.last_result
          /\ raised = st.raised
    /\ temperature_editing = FALSE
    /\ table_data = <<>>
    /\ tree = <<>>
    /\ walk = WalkIdle
    /\ opt = NoOpt
    /\ notes = <<>>
    /\ op = "init"
    /\ warned = <<>>
    /\ voltage_warnings = 0
    /\ probe = NoProbe

(***************************************************************************)
(* The chain walk on its own: any table of up to MaxRows rows and any      *)
(* query, the while loop taken one iteration at a time.                    *)
(***************************************************************************)
Row(circuit, od, do, dU) ==
    [circuit |-> circuit, OD |-> od, DO |-> do, L |-> Num(10, <<>>),
     Presek |-> Num(2, <<5>>), dU |-> dU]

RowPool ==
    {Row("c1", "A", "B", Num(1, <<0, 0>>)), Row("c1", "B", "C", Num(1, <<0, 0>>)),
     Row("c1", "C", "D", Num(1, <<0, 0>>)), Row("c1", "A", "D", Num(2, <<5, 0>>)),
     Row("c2", "C", "D", Num(2, <<5, 0>>)), Row("c1", "D", "A", Num(0, <<5, 0>>)),
     Row("c1", "B", "B", Num(0, <<5, 0>>)), Row("c1", "B", "D", BadText)}

\* the form fields the walk reads: the query and the in-progress input
ChainForm(circuit, od, do) ==
    [DefaultForm EXCEPT !.circuit = circuit, !.od = od, !.do = do,
                        !.L = Num(10, <<>>), !.area = Num(2, <<5>>)]

ChainForms ==
    {ChainForm("c1", "D", "E"), ChainForm("c1", "C", "D"), ChainForm("c1", "B", "C"),
     ChainForm("c2", "D", "E"), ChainForm("", "D", "E"), ChainForm("c1", "", "E")}

InitChain ==
    /\ table_data \in UNION {[1..n -> RowPool] : n \in 0..MaxRows}
    /\ tree = table_data
    /\ form \in ChainForms
    /\ catalogue = "standard"
    /\ medium_selected_key = "air"
    /\ temperature_editing = FALSE
    /\ last_temperature_warning = None
    /\ voltage_phase_warning_shown = FALSE
    /\ iv = BlankIv
    /\ last_result = None
    /\ walk = WalkIdle
    /\ opt = NoOpt
    /\ notes = <<>>
    /\ op = "init"
    /\ warned = <<>>
    /\ voltage_warnings = 0
    /\ raised = ""
    /\ probe = NoProbe

ChainStart ==
    /\ walk.pc = "idle"
    /\ walk' = ChainBegin(form.circuit, form.od)
    /\ op' = "chain"
    /\ UNCHANGED <<form, medium_selected_key, temperature_editing, last_temperature_warning,
                   voltage_phase_warning_shown, iv, last_result, table_data, tree, catalogue, opt,
                   notes, warned, voltage_warnings, raised, probe>>

ChainStep ==
    /\ walk.pc = "loop"
    /\ walk' = ChainIterate(walk, table_data, form)
    /\ op' = "chain"
    /\ UNCHANGED <<form, medium_selected_key, temperature_editing, last_temperature_warning,
                   voltage_phase_warning_shown, iv, last_result, table_data, tree, catalogue, opt,
                   notes, warned, voltage_warnings, raised, probe>>

NextChain == ChainStart \/ ChainStep

SpecChain == InitChain /\ [][NextChain]_vars

\* the walk is a method call that runs to its return: once called, the loop
\* keeps iterating while it can
SpecChainLive == InitChain /\ [][NextChain]_vars /\ WF_vars(NextChain)

(***************************************************************************)
(* The chain walk over drops that are no binary fractions: the segments of *)
(* one cable stored in the order they were entered.                        *)
(***************************************************************************)
SumRowPool ==
    {Row("c1", "A", "B", Num(0, <<3, 0>>)), Row("c1", "B", "C", Num(0, <<2, 0>>)),
     Row("c1", "C", "D", Num(0, <<1, 0>>)), Row("c2", "C", "D", Num(0, <<1, 0>>)),
     Row("c1", "B", "D", BadText)}

SumForms == {ChainForm("c1", "D", "E"), ChainForm("c1", "C", "D"), ChainForm("c2", "D", "E")}

InitSum ==
    /\ table_data \in UNION {[1..n -> SumRowPool] : n \in 0..MaxRows}
    /\ tree = table_data
    /\ form \in SumForms
    /\ catalogue = "standard"
    /\ medium_selected_key = "air"
    /\ temperature_editing = FALSE
    /\ last_temperature_warning = None
    /\ voltage_phase_warning_shown = FALSE
    /\ iv = BlankIv
    /\ last_result = None
    /\ walk = WalkIdle
    /\ opt = NoOpt
    /\ notes = <<>>
    /\ op = "init"
    /\ warned = <<>>
    /\ voltage_warnings = 0
    /\ raised = ""
    /\ probe = NoProbe

NextSum == ChainStart \/ ChainStep

SpecSum == InitSum /\ [][NextSum]_vars

(***************************************************************************)
(* The evaluation of one segment: the inputs change one at a time.         *)
(***************************************************************************)
EvalDomain ==
    ("pi" :> {Num(12000, <<>>)}) @@
    ("kj" :> {Num(1, <<0>>)}) @@
    ("cos" :> {Num(0, <<9>>)}) @@
    ("L" :> {Num(40, <<>>)}) @@
    ("area" :> {Num(1, <<5>>), Num(2, <<5>>)}) @@
    ("conductor" :> {"Cu", "Al"}) @@
    ("temp" :> {Num(30, <<>>), Num(100, <<>>)}) @@
    ("In" :> {Num(20, <<>>), Num(25, <<>>)}) @@
    ("k" :> {Num(1, <<4, 5>>), Num(2, <<0>>), Num(0, <<>>)}) @@
    ("parallel" :> {Num(1, <<>>), Num(2, <<>>)})

InitEval == catalogue = "standard" /\ InitApp

EditEval == Edit(EvalDomain)

NextEval == EditEval

SpecEval == InitEval /\ [][NextEval]_vars

(***************************************************************************)
(* The warnings of the passive recomputation.                              *)
(***************************************************************************)
WarnDomain ==
    ("temp" :> {EmptyText, Num(30, <<>>), Num(100, <<>>), Num(100, <<0, 4>>)}) @@
    ("medium" :> {"air", "soil"}) @@
    ("U" :> {Num(230, <<>>), Num(400, <<>>)}) @@
    ("cores" :> {Num(2, <<>>), Num(3, <<>>)})

InitWarn == catalogue = "standard" /\ InitApp

EditWarn == Edit(WarnDomain)

NextWarn == EditWarn \/ OnTemperatureFocusIn \/ OnTemperatureFocusOut \/ OnMediumChanged

SpecWarn == InitWarn /\ [][NextWarn]_vars

(***************************************************************************)
(* The segment table: segments are edited, added, removed, loaded back     *)
(* into the form, and a project file replaces form and table.              *)
(***************************************************************************)
SegmentForm ==
    [DefaultForm EXCEPT !.circuit = "K1", !.od = "A", !.do = "B",
                        !.pi = Num(12000, <<>>), !.kj = Num(1, <<0>>),
                        !.cos = Num(0, <<9>>), !.L = Num(40, <<>>),
                        !.area = Num(4, <<>>), !.In = Num(25, <<>>)]

TableDomain == ("od" :> {"A", "B"})

\* a project file: no form and no rows, or a form, an entry that is no
\* object and one row of which the file holds four columns
ProjectFiles ==
    {[form |-> <<>>, table |-> <<>>],
     [form |-> ("od" :> "B"),
      table |-> <<[json |-> "null"],
                  ("circuit" :> "K2") @@ ("OD" :> "0") @@ ("DO" :> "A")
                  @@ ("dU" :> Num(0, <<5, 0>>))>>]}

InitTable == catalogue = "standard" /\ InitForm(SegmentForm)

EditTable == Edit(TableDomain)

LoadProjectTable == LoadProject(ProjectFiles)

NextTable ==
    \/ EditTable
    \/ AddRow
    \/ RemoveSelectedRow
    \/ ClearTable
    \/ LoadSelectedRow
    \/ LoadProjectTable
    \/ SelectOptimalParameters

SpecTable == InitTable /\ [][NextTable]_vars

(***************************************************************************)
(* add_row on its own: the form holds a valid segment of which up to two   *)
(* fields were replaced by a missing, unparsable or out-of-domain value,   *)
(* and the button "add" is pressed.                                        *)
(***************************************************************************)
AddChoices ==
    ("pi" :> {EmptyText, BadText, Neg(12000, <<>>)}) @@
    ("kj" :> {EmptyText, Neg(1, <<0>>)}) @@
    ("eta" :> {EmptyText, Num(0, <<>>), Num(1, <<5>>)}) @@
    ("cos" :> {BadText, Num(0, <<>>), Num(1, <<2>>), Neg(0, <<9>>)}) @@
    ("L" :> {EmptyText, Neg(40, <<>>)}) @@
    ("area" :> {EmptyText, Num(0, <<>>), Neg(4, <<>>)}) @@
    ("U" :> {EmptyText, Num(0, <<>>)}) @@
    ("insulation" :> {"", "PE"}) @@
    ("cores" :> {EmptyText, Num(4, <<>>)}) @@
    ("group" :> {Num(0, <<>>), Num(2, <<>>)}) @@
    ("parallel" :> {BadText, Num(0, <<>>)}) @@
    ("temp" :> {EmptyText, Num(100, <<>>)}) @@
    ("In" :> {EmptyText}) @@
    ("dropKey" :> {""})

\* the forms that differ from f in one of the fields of AddChoices
OneChanged(f) ==
    UNION {{[f EXCEPT ![field] = value] : value \in AddChoices[field]} :
              field \in DOMAIN AddChoices}

AddForms == {SegmentForm} \cup OneChanged(SegmentForm)
            \cup UNION {OneChanged(f) : f \in OneChanged(SegmentForm)}

InitAdd == catalogue = "standard" /\ \E f \in AddForms : InitForm(f)

NextAdd == AddRow

SpecAdd == InitAdd /\ [][NextAdd]_vars

(***************************************************************************)
(* The reference lookups and _drop_pct on their own: one call with         *)
(* arguments of a bounded set, and what it returns.                        *)
(***************************************************************************)
MaxCircuits == 5

\* temperatures in thousandths of a degree: every 2.5 degrees from 5 to 45
\* and the neighbours of the breakpoints
ProbeTemperatures ==
    {d * 2500 : d \in 2..18}
    \cup {9999, 10001, 19999, 20001, 29999, 30001, 39999, 40001}

\* areas in thousandths of a square millimetre
ProbeAreas ==
    {-1000, 0, 500, 1000, 1499, 1500, 1501, 1502, 1750, 2000, 2250, 2498, 2499, 2500,
     2501, 2502, 3000, 3250, 3998, 3999, 4000, 4001, 5000}

Call(fn, args) == [fn |-> fn, args |-> args, outcome |-> "pending", value |-> 0]

ProbeCalls ==
    {Call("lookup_temperature_factor", <<insulation_key, medium, temperature>>) :
        insulation_key \in {"PVC", "XLPE", "PE"}, medium \in {"air", "soil", "duct"},
        temperature \in ProbeTemperatures}
    \cup {Call("lookup_group_factor", <<circuits>>) : circuits \in 0..MaxCircuits}
    \cup {Call("lookup_ampacity", <<insulation_key, conductor, laying, area, loaded_cores>>) :
              insulation_key \in {"PVC", "XLPE"}, conductor \in {"Cu", "Al"},
              laying \in {"C", "E", "X"}, area \in ProbeAreas, loaded_cores \in {2, 3}}
    \cup {Call("drop_pct", <<U, cos_phi, L_m, conductor, area, n_parallel, icalc_total>>) :
              U \in {0, 230, 400}, cos_phi \in {100, 900, 1000}, L_m \in {0, 40000},
              conductor \in {"Cu", "Al", "Ag"}, area \in {1500, 4000},
              n_parallel \in {1, 2}, icalc_total \in {-19245, 0, 19245}}

\* what the call returned: a value or None
Returned(call, result) ==
    IF IsNone(result) THEN [call EXCEPT !.outcome = "none"]
    ELSE [call EXCEPT !.outcome = "value", !.value = Val(result)]

Raised(call) == [call EXCEPT !.outcome = "raised"]

InitLookup ==
    /\ probe \in ProbeCalls
    /\ catalogue \in IF probe.fn = "lookup_group_factor"
                     THEN {"standard", "single_group", "no_grouping"} ELSE {"standard"}
    /\ form = Constructed.form
    /\ medium_selected_key = Constructed.medium
    /\ temperature_editing = FALSE
    /\ last_temperature_warning = Constructed.lastw
    /\ voltage_phase_warning_shown = Constructed.shown
    /\ iv = Constructed.iv
    /\ last_result = Constructed.last_result
    /\ table_data = <<>>
    /\ tree = <<>>
    /\ walk = WalkIdle
    /\ opt = NoOpt
    /\ notes = Constructed.notes
    /\ op = "init"
    /\ warned = <<>>
    /\ voltage_warnings = 0
    /\ raised = ""

\* a call returns: nothing but the outcome of the call changes
Return(fn, outcome) ==
    /\ probe.fn = fn
    /\ probe.outcome = "pending"
    /\ probe' = outcome
    /\ UNCHANGED <<form, medium_selected_key, temperature_editing, last_temperature_warning,
                   voltage_phase_warning_shown, iv, last_result, table_data, tree, catalogue, walk,
                   opt, notes, op, warned, voltage_warnings, raised>>

LookupTemperatureFactor ==
    Return("lookup_temperature_factor",
           Returned(probe, lookup_temperature_factor(probe.args[1], probe.args[2],
                                                     probe.args[3])))

LookupGroupFactor ==
    Return("lookup_group_factor",
           IF lookup_group_factor_raises(probe.args[1]) THEN Raised(probe)
           ELSE Returned(probe, Some(lookup_group_factor(probe.args[1]))))

LookupAmpacity ==
    Return("lookup_ampacity",
           Returned(probe, lookup_ampacity(probe.args[1], probe.args[2], probe.args[3],
                                           probe.args[4], probe.args[5])))

\* _drop_pct for PVC (70 degrees), method C and three loaded cores
DropPct ==
    Return("drop_pct",
           Returned(probe, Some(drop_pct(probe.args[1], probe.args[2], probe.args[3],
                                         probe.args[4], 70, probe.args[5], "C", 3,
                                         probe.args[6], probe.args[7]))))

NextLookup == LookupTemperatureFactor \/ LookupGroupFactor \/ LookupAmpacity \/ DropPct

SpecLookup == InitLookup /\ [][NextLookup]_vars

(***************************************************************************)
(* Reference data that is absent: the file loaded has no grouping factors  *)
(* or no standard sections, and the form names a conductor or a method     *)
(* without entries.                                                        *)
(***************************************************************************)
AbsentDomain ==
    ("group" :> {Num(1, <<>>), Num(2, <<>>)}) @@
    ("parallel" :> {Num(1, <<>>), Num(2, <<>>)}) @@
    ("area" :> {Num(1, <<5>>), Num(4, <<>>)}) @@
    ("conductor" :> {"Cu", "Ag"}) @@
    ("laying" :> {"C", "X"}) @@
    ("temp" :> {Num(30, <<>>), Num(100, <<>>)})

InitAbsent == catalogue \in {"no_grouping", "no_sections"} /\ InitForm(SegmentForm)

EditAbsent == Edit(AbsentDomain)

NextAbsent == EditAbsent

SpecAbsent == InitAbsent /\ [][NextAbsent]_vars

(***************************************************************************)
(* The optimizer: the fixed inputs change one at a time, the button runs   *)
(* the search.                                                             *)
(***************************************************************************)
OptDomain ==
    ("pi" :> {Num(1000, <<>>), Num(5000, <<>>), Num(12000, <<>>)}) @@
    ("kj" :> {Num(1, <<0>>)}) @@
    ("cos" :> {Num(0, <<9>>)}) @@
    ("L" :> {Num(50, <<>>), Num(100, <<>>), Num(400, <<>>)}) @@
    ("conductor" :> {"Cu", "Al"}) @@
    ("k" :> {Num(1, <<4, 5>>), Num(2, <<0>>)}) @@
    ("dropKey" :> {"A", "-"})

InitOpt == catalogue \in {"standard", "minimal"} /\ InitApp

EditOpt == Edit(OptDomain)

NextOpt == EditOpt \/ SelectOptimalParameters

SpecOpt == InitOpt /\ [][NextOpt]_vars

(***************************************************************************)
(* The optimizer with a tables.json whose drop limit "A" is 0.0.           *)
(***************************************************************************)
LimitDomain ==
    ("pi" :> {Num(1000, <<>>), Num(12000, <<>>)}) @@
    ("kj" :> {Num(1, <<0>>)}) @@
    ("cos" :> {Num(0, <<9>>)}) @@
    ("L" :> {Num(0, <<>>), Num(50, <<>>), Num(400, <<>>)}) @@
    ("dropKey" :> {"A", "B", "-"})

InitLimit == catalogue = "zero_limit" /\ InitApp

EditLimit == Edit(LimitDomain)

NextLimit == EditLimit \/ SelectOptimalParameters

SpecLimit == InitLimit /\ [][NextLimit]_vars

(***************************************************************************)
(* The remedies for a short, heavily loaded segment: the power, the        *)
(* length, the section and the other inputs of the remedies change.        *)
(***************************************************************************)
RemedyDomain ==
    ("pi" :> {Num(12000, <<>>), Num(25000, <<>>)}) @@
    ("L" :> {Num(14, <<>>), Num(40, <<>>), Num(100, <<>>)}) @@
    ("area" :> {Num(1, <<5>>), Num(2, <<5>>), Num(4, <<>>)}) @@
    ("insulation" :> {"PVC (70C)", "XLPE/EPR (90C)"}) @@
    ("laying" :> {"C", "E"}) @@
    ("parallel" :> {Num(1, <<>>), Num(2, <<>>)}) @@
    ("dropKey" :> {"A", "-"})

InitRemedy == catalogue = "standard" /\ InitForm(SegmentForm)

EditRemedy == Edit(RemedyDomain)

NextRemedy == EditRemedy

SpecRemedy == InitRemedy /\ [][NextRemedy]_vars

(***************************************************************************)
(* The evaluation with a tables.json whose grouping factor for three       *)
(* circuits is 0.0.                                                        *)
(***************************************************************************)
GroupDomain ==
    ("pi" :> {Num(0, <<>>), Num(12000, <<>>), Num(25000, <<>>)}) @@
    ("L" :> {Num(14, <<>>), Num(100, <<>>)}) @@
    ("area" :> {Num(1, <<5>>), Num(4, <<>>)}) @@
    ("group" :> {Num(1, <<>>), Num(2, <<>>), Num(3, <<>>)}) @@
    ("parallel" :> {Num(1, <<>>), Num(2, <<>>)}) @@
    ("dropKey" :> {"A", "-"})

InitGroup == catalogue = "zero_group" /\ InitForm(SegmentForm)

EditGroup == Edit(GroupDomain)

NextGroup == EditGroup

SpecGroup == InitGroup /\ [][NextGroup]_vars

(***************************************************************************)
(* The optimizer on the inputs it takes defaults for: the temperature,     *)
(* the factor k and the drop key change, the button runs the search.       *)
(***************************************************************************)
AgreeDomain ==
    ("pi" :> {Num(5000, <<>>), Num(12000, <<>>)}) @@
    ("L" :> {Num(40, <<>>), Num(100, <<>>)}) @@
    ("temp" :> {EmptyText, Num(30, <<>>), Num(40, <<>>)}) @@
    ("k" :> {EmptyText, Num(0, <<>>), Num(1, <<4, 5>>)}) @@
    ("dropKey" :> {"A", "-"})

InitAgree == catalogue = "standard" /\ InitForm(SegmentForm)

EditAgree == Edit(AgreeDomain)

NextAgree == EditAgree \/ SelectOptimalParameters

SpecAgree == InitAgree /\ [][NextAgree]_vars

(***************************************************************************)
(* Properties of the chain accumulation (SpecChain).                       *)
(***************************************************************************)
RECURSIVE SumStoredDrops(_, _)
SumStoredDrops(table, used) ==
    IF used = <<>> THEN 0
    ELSE StoredDrop(table[Head(used)]) + SumStoredDrops(table, Tail(used))

ExampleChain ==
    <<Row("c1", "A", "B", Num(1, <<0, 0>>)), Row("c1", "B", "C", Num(1, <<0, 0>>)),
      Row("c1", "C", "D", Num(1, <<0, 0>>))>>

\* the endpoint the walk stood at when it found its k-th record
EndpointAt(k) == IF k = 1 THEN walk.form_od ELSE table_data[walk.used[k - 1]].OD

\* C1: when the walk of _sum_drop_chain_ending_at has finished, its result is
\* the sum of the stored drops of the records it met, and these records form a
\* backward chain on the queried circuit that starts at the queried 'from'
\* label; the result is 0 when the circuit id or the 'from' label is empty or
\* when no record of the circuit has 'to' equal to the queried 'from' label;
\* for the table A->B, B->C, C->D with stored drops 1.0 the query 'from' = D
\* gives 3.0.
C1_ChainSum ==
    walk.pc = "done" =>
        /\ walk.total = SumStoredDrops(table_data, walk.used)
        /\ \A k \in DOMAIN walk.used :
              /\ table_data[walk.used[k]].circuit = walk.circuit
              /\ table_data[walk.used[k]].DO = EndpointAt(k)
        /\ (walk.circuit = "" \/ walk.form_od = "") => walk.total = 0
        /\ {i \in DOMAIN table_data : table_data[i].circuit = walk.circuit
                                      /\ table_data[i].DO = walk.form_od} = {}
           => walk.total = 0
        /\ (table_data = ExampleChain /\ walk.circuit = "c1" /\ walk.form_od = "D")
           => walk.total = 3000

C1_Witness ==
    /\ walk.pc = "done"
    /\ table_data = ExampleChain
    /\ walk.circuit = "c1"
    /\ walk.form_od = "D"
    /\ Len(walk.used) = 3

\* C2: at every step of the chain walk, the record used is the most recent
\* one (the one appended last) among the records of the circuit whose 'to'
\* endpoint equals the current walk endpoint.
C2_MostRecentMatch ==
    \A k \in DOMAIN walk.used :
        \A j \in ChainMatches(table_data, walk.circuit, walk.form_od, EndpointAt(k), form) :
            j <= walk.used[k]

(***************************************************************************)
(* Properties of the optimizer (SpecOpt).                                  *)
(***************************************************************************)
\* the compliance triple of a (section, rating) pair, for the fixed inputs c
PairComplies(c, area, breaker) ==
    LET iz_total == OptIzTotal(c, area)
    IN /\ ~IsNone(iz_total)
       /\ breaker > 0
       /\ c.icalc_total <= breaker
       /\ breaker <= Val(iz_total)
       /\ (IsNone(c.limit_pct) \/ OptDrop(c, area) <= Val(c.limit_pct))
       /\ MulK(breaker, c.k_value) <= MulK(1450, Val(iz_total))

CompliantPairs(c) ==
    {pr \in Range(STANDARD_SECTIONS)
            \X {c.breaker_values[j].value : j \in DOMAIN c.breaker_values} :
        PairComplies(c, pr[1], pr[2])}

SmallestCompliantPair ==
    (op = "select" /\ ~IsNone(opt.ctx) /\ CompliantPairs(Val(opt.ctx)) # {}) =>
        /\ opt.outcome = "success"
        /\ Val(opt.pair) \in CompliantPairs(Val(opt.ctx))
        /\ \A pr \in CompliantPairs(Val(opt.ctx)) :
              \/ Val(opt.pair)[1] < pr[1]
              \/ Val(opt.pair)[1] = pr[1] /\ Val(opt.pair)[2] <= pr[2]
        /\ try_parse_float(form.area) = Some(Val(opt.pair)[1])
        /\ try_parse_float(form.In) = Some(Val(opt.pair)[2])

SamePairAgain ==
    (op = "select" /\ opt.outcome = "success" /\ op' = "select") =>
        (opt'.outcome = "success" /\ opt'.pair = opt.pair)

RankedBefore(a, b) ==
    \/ a.metric < b.metric
    \/ a.metric = b.metric /\ a.area < b.area
    \/ a.metric = b.metric /\ a.area = b.area /\ a.breaker <= b.breaker

\* C4: when no pair complies and candidates were evaluated, the report holds
\* three of the evaluated candidates (all of them if fewer than three), every
\* evaluated pair of a usable section and a positive rating is a candidate,
\* the reported ones are in ascending order of magnitude, then area, then
\* breaker value, and no candidate left out ranks before a reported one.
C4_ThreeLowestRanked ==
    (op = "select" /\ opt.outcome = "fallback") =>
        /\ Len(opt.top) = Min2(3, Len(opt.evaluated))
        /\ {<<opt.evaluated[j].area, opt.evaluated[j].breaker>> : j \in DOMAIN opt.evaluated}
           = {pr \in Range(STANDARD_SECTIONS)
                     \X {Val(opt.ctx).breaker_values[j].value :
                            j \in DOMAIN Val(opt.ctx).breaker_values} :
                 pr[2] > 0 /\ ~IsNone(OptIzTotal(Val(opt.ctx), pr[1]))}
        /\ \A i \in DOMAIN opt.top : opt.top[i] \in Range(opt.evaluated)
        /\ \A i, j \in DOMAIN opt.top :
              i < j => (RankedBefore(opt.top[i], opt.top[j]) /\ opt.top[i] # opt.top[j])
        /\ \A e \in Range(opt.evaluated) \ Range(opt.top) :
              \A i \in DOMAIN opt.top : RankedBefore(opt.top[i], e)

C4_Witness ==
    /\ op = "select"
    /\ opt.outcome = "fallback"
    /\ Len(opt.evaluated) > 3
    /\ Len(opt.top) = 3
    /\ opt.top[1].metric < opt.top[3].metric

\* the sections for which the search computes a positive total ampacity
UsableSections(c) ==
    {i \in DOMAIN STANDARD_SECTIONS : ~IsNone(OptIzTotal(c, STANDARD_SECTIONS[i]))}

SubVerdicts == {iv.by_current, iv.by_dU, iv.protection}

ProtectionInputsRead ==
    /\ iv.in_value = Positive(try_parse_float(form.In))
    /\ iv.k_value = Positive(try_parse_float(form.k))
    /\ iv.I2 = IF ~IsNone(iv.in_value) /\ ~IsNone(iv.k_value)
               THEN Some(MulK(Val(iv.in_value), Val(iv.k_value))) ELSE None

ProtectionPasses ==
    /\ ~IsNone(iv.Iz) /\ ~IsNone(iv.Icalc) /\ ~IsNone(iv.in_value) /\ ~IsNone(iv.I2)
    /\ Val(iv.Icalc) <= Val(iv.in_value)
    /\ Val(iv.in_value) <= Val(iv.Iz) * iv.n_parallel
    /\ Val(iv.I2) <= MulK(1450, Val(iv.Iz) * iv.n_parallel)

\* C7 (as the code has it): the protection verdict is pass iff
\* Icalc <= In <= Iz_total and In*k <= 1.45*Iz_total with Iz_total the
\* per-cable ampacity times the parallel count; it is unavailable ("-", not
\* not-applicable) whenever In or I2 = In*k is missing or non-positive; it is
\* not-applicable exactly when In and I2 are there but Icalc or the ampacity
\* is not; it is fail otherwise.
C7_ProtectionVerdict ==
    /\ ProtectionInputsRead
    /\ (iv.protection = "OK") = ProtectionPasses
    /\ (iv.protection = "-") = (IsNone(iv.in_value) \/ IsNone(iv.I2))
    /\ (iv.protection = "N/A") = (/\ ~IsNone(iv.in_value) /\ ~IsNone(iv.I2)
                                  /\ (IsNone(iv.Iz) \/ IsNone(iv.Icalc)))
    /\ iv.protection \in {"OK", "NE", "-", "N/A"}

C7_Witness ==
    /\ iv.protection = "NE"
    /\ Val(iv.Icalc) <= Val(iv.in_value)
    /\ Val(iv.in_value) <= Val(iv.Iz) * iv.n_parallel
    /\ Val(iv.I2) > MulK(1450, Val(iv.Iz) * iv.n_parallel)

\* C7 as stated: the protection verdict is not-applicable whenever In or I2 is
\* unavailable.
C7_NotApplicableWithoutBreaker ==
    (IsNone(iv.in_value) \/ IsNone(iv.I2)) => iv.protection = "N/A"

AmpacityCompared == ~IsNone(iv.Iz) /\ ~IsNone(iv.icalc_per_cable)

\* C8 (as the code has it): the per-cable ampacity is base * S * T and the
\* per-cable current Icalc / n; the ampacity verdict is pass iff both are
\* there and the current is <= the ampacity, fail iff both are there and it
\* is greater; it is not-applicable exactly when the base ampacity is
\* missing; when the base ampacity is found but the temperature factor (or
\* Icalc) is missing it is unavailable ("-").
C8_AmpacityVerdict ==
    /\ iv.Iz = IF ~IsNone(iv.base_ampacity) /\ ~IsNone(iv.T)
               THEN Some(MulK(MulK(Val(iv.base_ampacity), Val(iv.S)), Val(iv.T))) ELSE None
    /\ iv.icalc_per_cable = IF IsNone(iv.Icalc) THEN None
                            ELSE Some(Val(iv.Icalc) \div iv.n_parallel)
    /\ (iv.by_current = "OK") = (AmpacityCompared /\ Val(iv.icalc_per_cable) <= Val(iv.Iz))
    /\ (iv.by_current = "NE") = (AmpacityCompared /\ Val(iv.icalc_per_cable) > Val(iv.Iz))
    /\ (iv.by_current = "N/A") = IsNone(iv.base_ampacity)
    /\ (iv.by_current = "-") = (~IsNone(iv.base_ampacity) /\ ~AmpacityCompared)

C8_Witness ==
    /\ ~IsNone(iv.base_ampacity)
    /\ IsNone(iv.T)
    /\ ~IsNone(iv.Icalc)
    /\ iv.by_current = "-"

\* C8 as stated: the ampacity verdict is not-applicable whenever the per-cable
\* ampacity is unavailable, also when the base ampacity is found and the
\* temperature factor is not.
C8_NotApplicableWithoutAmpacity == IsNone(iv.Iz) => iv.by_current = "N/A"

(***************************************************************************)
(* Properties of the warnings of passive recomputations (SpecWarn).        *)
(***************************************************************************)
TemperatureNotes(shown_notes) ==
    {j \in DOMAIN shown_notes : shown_notes[j].kind = "warning.temperature_range_msg"}

NoRepeatWhileRemembered ==
    /\ \A j \in TemperatureNotes(notes') :
          /\ notes'[j].key # last_temperature_warning
          /\ notes'[j].key = last_temperature_warning'
    /\ Cardinality(TemperatureNotes(notes')) <= 1
    /\ ~IsNone(iv'.T) => last_temperature_warning' = None

C10_PassiveNotifications ==
    /\ \A j \in DOMAIN notes :
          notes[j].kind \in {"warning.temperature_range_msg", "warning.voltage_phase"}
    /\ voltage_warnings <= 1
    /\ voltage_phase_warning_shown = (voltage_warnings = 1)

C10_Witness ==
    /\ op = "edit"
    /\ voltage_warnings = 1
    /\ notes = <<>>
    /\ form.U = Num(230, <<>>)
    /\ form.cores = Num(3, <<>>)

(***************************************************************************)
(* C11: the frame of the segment table.                                    *)
(***************************************************************************)
\* the k-th smallest index of a set of indices
NthIndex(indices, k) == CHOOSE j \in indices : Cardinality({x \in indices : x <= j}) = k

\* new holds the rows of old at the indices kept, in their order
KeepsRows(old, new, kept) ==
    /\ Len(new) = Cardinality(kept)
    /\ \A k \in 1..Len(new) : new[k] = old[NthIndex(kept, k)]

SegmentTableStep ==
    /\ op' \in {"edit", "select", "load_selected_row"} => table_data' = table_data
    /\ op' = "add_row" =>
          \/ table_data' = table_data
          \/ /\ Len(table_data') = Len(table_data) + 1
             /\ SubSeq(table_data', 1, Len(table_data)) = table_data
    /\ op' = "remove_selected_row" =>
          \E kept \in SUBSET DOMAIN table_data : KeepsRows(table_data, table_data', kept)
    /\ op' = "clear_table" => table_data' = <<>>
    /\ op' = "load_project" =>
          \E payload \in ProjectFiles : table_data' = NormalizedRows(payload.table)
    /\ op' \in {"edit", "select", "load_selected_row", "add_row", "remove_selected_row",
                "clear_table", "load_project"}

\* C11: a record of the segment table keeps its field values and its place
\* among the others until it is deleted: an edit (recomputation with its
\* chain accumulation and recommendations), the optimizer and loading a row
\* into the form leave the table as it is; add_row leaves it or appends one
\* record at the end; remove_selected_row and clear_table only delete
\* records; load_project replaces the table by the rows of the file.
C11_SegmentTableFrame == [][SegmentTableStep]_vars

C11_Witness ==
    /\ op = "add_row"
    /\ Len(table_data) = 2
    /\ table_data[1] # table_data[2]
    /\ table_data[2].OD = form.od
    /\ table_data[2].total_dU # table_data[2].dU

(***************************************************************************)
(* C12: add_row and invalid input.                                         *)
(***************************************************************************)
MissingOrInvalid(t) == IsNone(try_parse_float(t))

\* a required field of the form is empty, unparsable or out of its domain
RequiredFieldInvalid(f) ==
    \/ MissingOrInvalid(f.pi) \/ MissingOrInvalid(f.kj)
    \/ MissingOrInvalid(f.eta) \/ FloatOf(f.eta) <= 0 \/ FloatOf(f.eta) > 1000
    \/ MissingOrInvalid(f.cos) \/ FloatOf(f.cos) <= 0 \/ FloatOf(f.cos) > 1000
    \/ MissingOrInvalid(f.L) \/ FloatOf(f.L) < 0
    \/ MissingOrInvalid(f.area) \/ FloatOf(f.area) <= 0
    \/ IsNone(IntOf(f.cores)) \/ Val(IntOf(f.cores)) \notin {2, 3}
    \/ IsNone(IntOf(f.group)) \/ Val(IntOf(f.group)) < 1
    \/ IsNone(IntOf(f.parallel)) \/ Val(IntOf(f.parallel)) < 1
    \/ f.insulation \notin DOMAIN INSULATION_META

ErrorShown(shown_notes) ==
    \E j \in DOMAIN shown_notes :
        shown_notes[j].kind \in {"error.input_empty", "error.input_invalid",
                                 "error.eta_range_field", "error.cos_phi_range_field",
                                 "error.area_positive", "error.insulation_unknown",
                                 "error.loaded_cores_2_3_field", "error.circuits_1_20",
                                 "error.parallel_1_6", "error.add_row_no_result"}

AddRowRejects ==
    op' = "add_row" /\ (RequiredFieldInvalid(form) \/ IsNone(last_result'))
        => table_data' = table_data /\ ErrorShown(notes')

\* C12 (the rejection): when a required field is empty, unparsable or out of
\* its domain, or the recomputation add_row starts with leaves no complete
\* result, add_row shows an error and the segment table stays as it is.
C12_AddRowRejects == [][AddRowRejects]_vars

C12_Witness ==
    /\ op = "add_row"
    /\ table_data = <<>>
    /\ FloatOf(form.L) < 0
    /\ ~MissingOrInvalid(form.pi)
    /\ notes # <<>>
    /\ notes[Len(notes)].kind = "error.add_row_no_result"

NoDefaultInRecord ==
    op' = "add_row" /\ Len(table_data') = Len(table_data) + 1
        => /\ MissingOrInvalid(form.temp) => table_data'[Len(table_data')].T.k # "num"
           /\ form.dropKey \notin DOMAIN DROP_LIMIT_KEYS
                 => table_data'[Len(table_data')].limit.k # "num"

\* C12 (the record): no missing value is replaced by a default in a record
\* add_row appends: with the temperature field empty the record holds no
\* temperature factor, with no drop-limit class selected it holds no limit.
C12_NoDefaultInRecord == [][NoDefaultInRecord]_vars

(***************************************************************************)
(* C13: a reference value that is unavailable.                             *)
(***************************************************************************)
\* add_row has just appended a record
JustAppended == op = "add_row" /\ table_data # <<>> /\ ~ErrorShown(notes) /\ raised = ""

\* C13: when the temperature factor is unavailable, the values that depend
\* on it are unavailable and no number stands in for it: the ampacity shown
\* is unavailable, the stored result holds the factor shown, and so does the
\* record add_row appends.
C13_LookupMissStaysUnavailable ==
    /\ IsNone(iv.T) => IsNone(iv.Iz)
    /\ ~IsNone(last_result) => Some(Val(last_result).t_coeff) = iv.T
    /\ JustAppended => (table_data[Len(table_data)].T.k = "num") = ~IsNone(iv.T)

(***************************************************************************)
(* C14: the range of the temperature factor.                               *)
(***************************************************************************)
\* the table the call selects: the soil table for "soil", the air table otherwise
SelectedTable(insulation_key, medium) ==
    IF medium = "soil" THEN KT_Z_TABLE[insulation_key] ELSE KT_V_TABLE[insulation_key]

\* lo and hi are breakpoints with no breakpoint between them
Adjacent(table, lo, hi) ==
    /\ lo \in DOMAIN table /\ hi \in DOMAIN table /\ lo < hi
    /\ ~\E b \in DOMAIN table : lo < b /\ b < hi

\* value is the point at temperature t of the line through the two breakpoints,
\* up to the rounding of the arithmetic, and lies between their factors
Interpolates(table, lo, hi, t, value) ==
    LET span == (hi - lo) * 1000
        exact == table[lo] * span + (t - lo * 1000) * (table[hi] - table[lo])
    IN /\ Abs(value * span - exact) <= 2 * span
       /\ Min2(table[lo], table[hi]) <= value /\ value <= Max2(table[lo], table[hi])

TemperatureFactorOf(insulation_key, medium, t) ==
    LET table == SelectedTable(insulation_key, medium)
        lowest == CHOOSE b \in DOMAIN table : \A c \in DOMAIN table : b <= c
        highest == CHOOSE b \in DOMAIN table : \A c \in DOMAIN table : c <= b
    IN IF t < lowest * 1000 \/ t > highest * 1000 THEN probe.outcome = "none"
       ELSE /\ probe.outcome = "value"
            /\ \A b \in DOMAIN table : t = b * 1000 => probe.value = table[b]
            /\ \A lo, hi \in DOMAIN table :
                  Adjacent(table, lo, hi) /\ lo * 1000 < t /\ t < hi * 1000
                     => Interpolates(table, lo, hi, t, probe.value)

\* C14: _lookup_temperature_factor returns None for a temperature strictly
\* outside the smallest and largest breakpoint of the selected table (the
\* soil table when the medium is soil, the air table otherwise), the
\* tabulated factor at a breakpoint, and between two adjacent breakpoints the
\* linear interpolation, which lies between their factors.
C14_TemperatureFactorRange ==
    probe.fn = "lookup_temperature_factor" /\ probe.outcome # "pending"
    /\ probe.args[1] \in DOMAIN KT_V_TABLE
        => TemperatureFactorOf(probe.args[1], probe.args[2], probe.args[3])

C14_Witness ==
    /\ probe.fn = "lookup_temperature_factor"
    /\ probe.args = <<"PVC", "soil", 12500>>
    /\ probe.outcome = "value"
    /\ 1000 < probe.value /\ probe.value < 1100

(***************************************************************************)
(* C15: the grouping factor beyond the largest key.                        *)
(***************************************************************************)
LargestKey == CHOOSE x \in DOMAIN GROUPING_FACTORS : \A y \in DOMAIN GROUPING_FACTORS : y <= x

GroupFactorReturned ==
    probe.fn = "lookup_group_factor" /\ probe.outcome = "value"
    /\ DOMAIN GROUPING_FACTORS # {}

AmpacityCalled ==
    /\ probe.fn = "lookup_ampacity" /\ probe.outcome # "pending"
    /\ probe.args[3] \in DOMAIN AMPACITY_BASE
    /\ probe.args[1] \in DOMAIN AMPACITY_INSULATION_FACTORS
    /\ probe.args[2] \in DOMAIN AMPACITY_INSULATION_FACTORS[probe.args[1]]

\* the ampacity of the call's cable with the area a
AmpacityAt(a) ==
    lookup_ampacity(probe.args[1], probe.args[2], probe.args[3], a, probe.args[5])

StandardAreas == DOMAIN AMPACITY_BASE[probe.args[3]]

SmallestArea == CHOOSE a \in StandardAreas : \A b \in StandardAreas : a <= b

LargestArea == CHOOSE a \in StandardAreas : \A b \in StandardAreas : b <= a

\* value is base times the two multipliers, up to the rounding of the arithmetic
ScaledBase(value, base) ==
    LET multiplier == AMPACITY_INSULATION_FACTORS[probe.args[1]][probe.args[2]][probe.args[3]]
        load_multiplier == AMPACITY_LOADED_FACTORS[probe.args[3]][probe.args[5]]
    IN Abs(value * 1000 - ((base * multiplier) \div 1000) * load_multiplier) <= 2000

\* C16: for an area at or below the smallest standard area of the method's
\* table _lookup_ampacity returns what it returns at the smallest area, for
\* an area at or above the largest what it returns at the largest, and that
\* is the base value at the boundary times the insulation/conductor/method
\* multiplier and the loaded-core multiplier.
C16_BoundaryClamp ==
    AmpacityCalled =>
        /\ probe.args[4] <= SmallestArea =>
              /\ probe.outcome = "value"
              /\ Some(probe.value) = AmpacityAt(SmallestArea)
              /\ ScaledBase(probe.value, AMPACITY_BASE[probe.args[3]][SmallestArea])
        /\ probe.args[4] >= LargestArea =>
              /\ probe.outcome = "value"
              /\ Some(probe.value) = AmpacityAt(LargestArea)
              /\ ScaledBase(probe.value, AMPACITY_BASE[probe.args[3]][LargestArea])

C16_Witness ==
    /\ AmpacityCalled
    /\ probe.args = <<"XLPE", "Cu", "C", 500, 3>>
    /\ probe.outcome = "value"
    /\ probe.value = 21937

\* the part of C17 that holds: between two standard areas the ampacity lies
\* between the ampacities of the two
BetweenStandardAreas ==
    AmpacityCalled =>
        \A a1, a2 \in StandardAreas :
            a1 < a2 /\ a1 <= probe.args[4] /\ probe.args[4] <= a2 =>
                /\ probe.outcome = "value"
                /\ Min2(Val(AmpacityAt(a1)), Val(AmpacityAt(a2))) <= probe.value
                /\ probe.value <= Max2(Val(AmpacityAt(a1)), Val(AmpacityAt(a2)))

\* C17: between two standard areas the ampacity lies between the ampacities
\* of the two, and an area within the tolerance of the exact match (0.001
\* square millimetres) of a standard area, on either side of it, has the
\* ampacity of that standard area.
C17_InterpolationAndExactMatch ==
    /\ BetweenStandardAreas
    /\ AmpacityCalled =>
          \A a \in StandardAreas :
              Abs(probe.args[4] - a) <= 1 => Some(probe.value) = AmpacityAt(a)

(***************************************************************************)
(* C18: the sign of the voltage drop.                                      *)
(***************************************************************************)
\* the part of C18 that holds: _drop_pct returns 0 for the voltage 0, and a
\* drop that is not negative when the design current is not negative
DropPctOfValidCurrent ==
    probe.fn = "drop_pct" /\ probe.outcome = "value" =>
        /\ probe.args[1] = 0 => probe.value = 0
        /\ probe.args[7] >= 0 => probe.value >= 0

\* voltage > 0, 0 < cos phi <= 1 and length >= 0 in the form
DropInputsValid(f) ==
    /\ ~MissingOrInvalid(f.U) /\ FloatOf(f.U) > 0
    /\ ~MissingOrInvalid(f.cos) /\ FloatOf(f.cos) > 0 /\ FloatOf(f.cos) <= 1000
    /\ ~MissingOrInvalid(f.L) /\ FloatOf(f.L) >= 0

\* C18: the voltage drop the recomputation shows and stores is not negative
\* when voltage > 0, 0 < cos phi <= 1 and length >= 0, whatever the other
\* inputs the form accepts are.
C18_DropNonNegative ==
    DropInputsValid(form) =>
        /\ ~IsNone(iv.dU) => Val(iv.dU) >= 0
        /\ ~IsNone(last_result) => Val(last_result).delta_u >= 0

(***************************************************************************)
(* C19: the recomputation is idempotent.                                   *)
(***************************************************************************)
\* the state a recomputation or add_row reads is the same in a and b
SameState(a, b) ==
    /\ a.form = b.form /\ a.medium = b.medium /\ a.editing = b.editing
    /\ a.lastw = b.lastw /\ a.shown = b.shown /\ a.table = b.table
    /\ a.iv = b.iv /\ a.last_result = b.last_result

\* C19: every state the application is in was left by a recomputation; a
\* second recomputation with the same form, tables and segment table leaves
\* the derived values (S, T, Icalc, Iz, the drops, the verdicts, the
\* recommendations, the stored last result) and the rest of the state as
\* they are, and raises nothing.
C19_RecomputationIdempotent ==
    \E st \in {Cur} : \E again \in {Update(st)} : SameState(again, st) /\ again.raised = ""

C19_Witness ==
    /\ op = "edit"
    /\ iv.S = Some(800)
    /\ iv.by_dU = "NE"
    /\ iv.recs # <<>>
    /\ ~IsNone(last_result)

(***************************************************************************)
(* C20: lookups over absent reference data.                                *)
(***************************************************************************)
\* the part of C20 that holds: a conductor or a method without entries makes
\* the ampacity unavailable and the recomputation goes on
MissingKeyIsUnavailable ==
    raised = "" /\ (form.conductor = "Ag" \/ form.laying = "X") =>
        IsNone(iv.Iz) /\ iv.by_current = "N/A"

\* C20: no recomputation is ended by an exception of a reference lookup or
\* of the recommendation engine, whatever reference data is absent.
C20_LookupsNeverRaise == raised = ""


(***************************************************************************)
(* Termination of the chain walk (SpecChainLive).                          *)
(***************************************************************************)
\* the loop is at its test and the next iteration finds a record to follow
FollowsRecord ==
    /\ walk.pc = "loop"
    /\ walk.current # ""
    /\ walk.current \notin walk.visited
    /\ ChainFind(table_data, walk.circuit, walk.form_od, walk.current, form) # 0

\* the records followed so far have pairwise distinct 'to' labels, each one
\* a label the walk has visited
OneStepPerEndpoint ==
    /\ \A j, k \in DOMAIN walk.used :
          j # k => table_data[walk.used[j]].DO # table_data[walk.used[k]].DO
    /\ \A k \in DOMAIN walk.used : table_data[walk.used[k]].DO \in walk.visited
    /\ Cardinality(walk.visited) <= Len(walk.used) + 1

WalkStepBound ==
    /\ OneStepPerEndpoint
    /\ Len(walk.used) <= Len(table_data)
    /\ (walk.pc = "loop" /\ ~FollowsRecord)
       => ChainIterate(walk, table_data, form).pc = "done"

\* C21: the chain walk terminates for every segment table and every starting
\* label, cycles and self-loops included: an iteration that finds no matching
\* record, or that stands at an already visited endpoint, ends the walk; the
\* records followed have pairwise distinct 'to' labels, so the walk follows
\* at most as many records as the table holds.
C21_WalkTerminates == []WalkStepBound /\ <>(walk.pc = "done")

\* a walk ended by the cycle guard: a record matches the current endpoint,
\* but the endpoint was visited before
C21_Witness ==
    /\ walk.pc = "done"
    /\ walk.current \in walk.visited
    /\ ChainFind(table_data, walk.circuit, walk.form_od, walk.current, form) # 0
    /\ Len(walk.used) >= 2
    /\ Len(walk.used) = Len(table_data)


(***************************************************************************)
(* The self-match exclusion of the chain walk (SpecTable).                 *)
(***************************************************************************)
\* two texts that read the same: the same number, or the same characters
SameQuantity(a, b) == a = b \/ (a.k = "num" /\ b.k = "num" /\ FloatOf(a) = FloatOf(b))

\* a record with the circuit, the endpoints, the length and the cross-section
\* of the in-progress input
DuplicateOfInput(row, f) ==
    /\ row.circuit = f.circuit
    /\ row.OD = f.od
    /\ row.DO = f.do
    /\ SameQuantity(row.L, f.L)
    /\ SameQuantity(row.Presek, f.area)

\* the records the walk for the in-progress input adds up
UpstreamRecords ==
    ChainRun(ChainBegin(form.circuit, form.od), table_data, form).used

\* a record that the test of line 1801 skips is a duplicate of the input,
\* and the walk adds up no record that the test skips
SkippedOnlyDuplicates ==
    /\ \A i \in DOMAIN table_data :
          (table_data[i].circuit = form.circuit /\ SelfMatch(table_data[i], form.od, form))
          => DuplicateOfInput(table_data[i], form)
    /\ \A k \in DOMAIN UpstreamRecords :
          ~SelfMatch(table_data[UpstreamRecords[k]], form.od, form)

\* C22: a table record that is an exact duplicate of the in-progress input
\* (same circuit, 'from', 'to', length and cross-section as the form) is never
\* among the records whose stored drops the walk for that input adds up.
C22_SelfMatchExcluded ==
    \A k \in DOMAIN UpstreamRecords :
        ~DuplicateOfInput(table_data[UpstreamRecords[k]], form)


(***************************************************************************)
(* The violation magnitude of the optimizer (SpecLimit, SpecOpt).          *)
(***************************************************************************)
\* the drop excess above the selected limit, 0 when no limit is selected
DropExcess(c, cand) ==
    IF IsNone(c.limit_pct) THEN 0 ELSE Max2(0, cand.drop - Val(c.limit_pct))

\* the sum the claim gives for the candidate
Magnitude(c, cand) ==
    Max2(0, c.icalc_total - cand.breaker) + Max2(0, cand.breaker - cand.iz_total)
    + Max2(0, c.icalc_total - cand.iz_total) + DropExcess(c, cand)
    + Max2(0, MulK(cand.breaker, c.k_value) - MulK(1450, cand.iz_total))

\* C23: for every non-compliant candidate the optimizer evaluated, the
\* violation magnitude is non-negative and is the sum of the five excesses,
\* the drop excess being max(0, drop - limit) for every selected limit, the
\* limit 0 included, and 0 when no limit is selected.
C23_ViolationMagnitude ==
    \A i \in DOMAIN opt.evaluated :
        /\ opt.evaluated[i].metric >= 0
        /\ opt.evaluated[i].metric = Magnitude(Val(opt.ctx), opt.evaluated[i])

\* a search that evaluated a candidate whose drop exceeds the selected limit
DropExcessEvaluated ==
    /\ opt.outcome \in {"fallback", "success"}
    /\ ~IsNone(Val(opt.ctx).limit_pct)
    /\ \E i \in DOMAIN opt.evaluated : opt.evaluated[i].drop > Val(Val(opt.ctx).limit_pct)


(***************************************************************************)
(* The remedies of _recommend (SpecEval).                                  *)
(***************************************************************************)
\* the arguments _recommend was called with in the recomputation shown
RecommendCall ==
    With(ReadInputs(form, medium_selected_key), LAMBDA p :
        RecommendArgs(form, p, Quantities(p)))

\* the remedy applied: its section, method, insulation and parallel count
\* carry the design current within the drop limit
RemedyComplies(a, r) ==
    LET area == FloatOf(r.area)
        insulation_key == IF r.action = "xlpe" THEN "XLPE" ELSE a.insulation_key
        insulation_theta == IF r.action = "xlpe" THEN INSULATION_META["XLPE/EPR (90C)"].theta
                            ELSE a.insulation_theta
        iz_base == lookup_ampacity(insulation_key, a.conductor, r.method, area, a.loaded_cores)
        drop_val == drop_pct(a.U, a.cos_phi, a.L, a.conductor, insulation_theta, area,
                             r.method, a.loaded_cores, r.n, a.icalc_total)
    IN /\ ~IsNone(iz_base)
       /\ a.icalc_total <= MulK(MulK(Val(iz_base), a.S), a.T) * r.n
       /\ IsNone(a.limit_pct) \/ drop_val <= Val(a.limit_pct)

\* the drop of a remedy is within the selected limit
RemedyDropWithinLimit(a, r) ==
    IsNone(a.limit_pct) \/ FloatOf(r.drop) <= Val(a.limit_pct)

\* the remedies 1 to 3 comply, and the drop every remedy reports is within
\* the limit
SectionRemediesComply ==
    \E a \in {RecommendCall} :
        \A i \in DOMAIN iv.recs :
            iv.recs[i].action # "generic"
            => /\ RemedyDropWithinLimit(a, iv.recs[i])
               /\ iv.recs[i].action # "parallel" => RemedyComplies(a, iv.recs[i])

\* C24: every remedy of _recommend other than the generic one (section,
\* method, insulation, parallel cables) complies when applied: the design
\* current per cable is within the ampacity per cable and the drop is within
\* the selected limit.
C24_RemediesComply ==
    \E a \in {RecommendCall} :
        \A i \in DOMAIN iv.recs :
            iv.recs[i].action # "generic" => RemedyComplies(a, iv.recs[i])


(***************************************************************************)
(* When and what _recommend returns (SpecGroup, SpecEval, SpecRemedy).     *)
(***************************************************************************)
\* the ampacity verdict or the drop verdict of the recomputation is fail
RecommendInvoked == iv.by_current = "NE" \/ iv.by_dU = "NE"

\* the place of a remedy in the fixed order
RemedyRank(action) ==
    IF action = "section" THEN 1 ELSE IF action = "method" THEN 2
    ELSE IF action = "xlpe" THEN 3 ELSE IF action = "parallel" THEN 4 ELSE 5

RemediesInOrder(recs) ==
    \A i, j \in DOMAIN recs : i < j => RemedyRank(recs[i].action) < RemedyRank(recs[j].action)

\* without a failed verdict nothing is recommended; what is returned is at
\* most four remedies in the fixed order, the generic one only on its own
RecommendationsShape ==
    /\ ~RecommendInvoked => iv.recs = <<>>
    /\ Len(iv.recs) <= 4
    /\ RemediesInOrder(iv.recs)
    /\ (\E i \in DOMAIN iv.recs : iv.recs[i].action = "generic") => Len(iv.recs) = 1

\* C25: _recommend is invoked exactly in the recomputations whose ampacity
\* or drop verdict is fail, and whenever it is invoked it returns one to four
\* remedies in the order section, method, insulation, parallel cables, the
\* generic remedy alone exactly when none of the four applies: never an
\* empty list.
C25_OneToFourRemedies ==
    /\ RecommendationsShape
    /\ RecommendInvoked
       => /\ Len(iv.recs) >= 1
          /\ \E a \in {RecommendCall} :
                (iv.recs = <<[action |-> "generic"]>>) <=> (RecommendAll(a) = <<>>)


(***************************************************************************)
(* The optimizer and the evaluator (SpecOpt).                              *)
(***************************************************************************)
\* the optimizer has just written a compliant pair into the form
PairWritten == op = "select" /\ opt.outcome = "success"

\* the inputs for which the optimizer takes a default the evaluator lacks
TemperatureGiven == ~IsNone(try_parse_float(form.temp))

OverloadFactorGiven == ~IsNone(Positive(try_parse_float(form.k)))

LimitSelected == form.dropKey \in DOMAIN DROP_LIMIT_KEYS

\* the pair written passes the ampacity verdict of the recomputation that
\* follows when the temperature field holds a number, the protection verdict
\* when k is a positive number as well, and the drop verdict when a drop
\* limit is selected
AgreesOnGivenInputs ==
    PairWritten
    => /\ TemperatureGiven => iv.by_current = "OK"
       /\ (TemperatureGiven /\ OverloadFactorGiven) => iv.protection = "OK"
       /\ LimitSelected => iv.by_dU = "OK"
       /\ (TemperatureGiven /\ OverloadFactorGiven /\ LimitSelected)
          => iv.compat = "status.ok"

\* C26: whenever select_optimal_parameters finds a compliant pair and writes
\* it into the form, the recomputation that follows reports the ampacity, the
\* drop and the protection verdict as pass and the aggregate verdict as pass.
C26_OptimizerAgreesWithEvaluator ==
    PairWritten
    => /\ iv.by_current = "OK"
       /\ iv.by_dU = "OK"
       /\ iv.protection = "OK"
       /\ iv.compat = "status.ok"


(***************************************************************************)
(* The tree and the segment list (SpecTable).                              *)
(***************************************************************************)
\* the tree has a row for every record, in the same order, showing it
TreeShowsTable ==
    /\ Len(tree) = Len(table_data)
    /\ \A i \in DOMAIN tree : tree[i] = TreeValues(table_data[i])

\* remove_selected_row takes the rows of one set of indices out of the tree
\* and the records at these indices out of the list, the others keep their order
RemovesSelected ==
    op' = "remove_selected_row"
    => \E selected \in SUBSET DOMAIN tree :
          /\ tree' = WithoutRows(tree, selected, 1)
          /\ table_data' = WithoutRows(table_data, selected, 1)
          /\ KeepsRows(table_data, table_data', DOMAIN table_data \ selected)

\* C27: after any sequence of add_row, remove_selected_row, clear_table and
\* load_project the tree and _table_data have the same length and row i of the
\* tree shows record i of _table_data; remove_selected_row removes exactly the
\* records at the selected indices and keeps the order of the others.
C27_TreeShowsTable == []TreeShowsTable /\ [][RemovesSelected]_vars

\* one of two different records was removed
C27_Witness ==
    /\ op = "remove_selected_row"
    /\ Len(table_data) = 1
    /\ tree = <<TreeValues(table_data[1])>>
    /\ table_data[1].OD = "B"

(***************************************************************************)
(* The protection verdict and the ampacity verdict (SpecEval).             *)
(***************************************************************************)
\* the protection verdict is a pass
ProtectionVerdictPass == iv.protection = "OK"

ContributesOnce ==
    \A j, k \in DOMAIN walk.used : walk.used[j] = walk.used[k] => j = k

\* every record found belongs to the queried circuit
OnlyQueriedCircuit ==
    \A k \in DOMAIN walk.used : table_data[walk.used[k]].circuit = walk.circuit

\* the stored drops of the circuit's records, in thousandths
RECURSIVE CircuitDrops(_, _)
CircuitDrops(table, circuit) ==
    IF table = <<>> THEN 0
    ELSE (IF Head(table).circuit = circuit THEN StoredDrop(Head(table)) ELSE 0)
         + CircuitDrops(Tail(table), circuit)

NonNegativeDrops == \A i \in DOMAIN table_data : StoredDrop(table_data[i]) >= 0

\* in exact arithmetic the accumulated drop is at most the sum of the circuit
ExactTotalWithinCircuit ==
    NonNegativeDrops => walk.total <= CircuitDrops(table_data, walk.circuit)

\* the two floats the methods return
ReturnedWithinCircuit ==
    float_leq(ChainTotalFrom(table_data, walk.used, FloatZero),
              sum_drop_for_circuit(walk.circuit, table_data))

\* C29: in one chain walk every record contributes its stored drop at most
\* once and only records of the queried circuit contribute; for non-negative
\* stored drops the accumulated upstream drop never exceeds the sum of the
\* stored drops of all records of that circuit (_sum_drop_for_circuit).
C29_TotalWithinCircuitSum ==
    /\ ContributesOnce
    /\ OnlyQueriedCircuit
    /\ (walk.pc = "done" /\ NonNegativeDrops) => ReturnedWithinCircuit


(***************************************************************************)
(* What select_optimal_parameters changes (SpecOpt).                       *)
(***************************************************************************)
\* the fields of the form the user enters: all but the two coefficients the
\* recomputation displays in it
FormInputs == DOMAIN DefaultForm \ {"S", "T"}

\* the pair found is in both fields
PairInForm(f, pair) ==
    /\ f.area = AreaText(pair[1])
    /\ f.In.k = "num"
    /\ FloatOf(f.In) = pair[2]

\* one run of the handler
SelectFrame ==
    op' = "select" /\ opt'.outcome # "none"
    => /\ opt'.outcome # "success" => form'.area = form.area /\ form'.In = form.In
       /\ opt'.outcome = "success" => PairInForm(form', Val(opt'.pair))
       /\ \A field \in FormInputs \ {"area", "In"} : form'[field] = form[field]
       /\ table_data' = table_data
       /\ tree' = tree
       /\ catalogue' = catalogue

\* C30: when validation fails or no compliant pair is found, the form's
\* cross-section and breaker rating keep their previous values; in every case
\* the only form inputs select_optimal_parameters changes are the cross-section
\* and the breaker rating, set together to the returned pair, and it never
\* changes the segment table or the reference tables.
C30_SelectFrame == [][SelectFrame]_vars

\* a search that found no pair ran on a form holding the pair of an earlier one
C30_Witness ==
    /\ op = "select"
    /\ opt.outcome = "fallback"
    /\ form.area.k = "num"
    /\ form.In.k = "num"


====
